---- MODULE Spec2Model ----
(***************************************************************************)
(* Project AEGIS: the orchestrator's fleet state machine and dispatcher.   *)
(*                                                                         *)
(* The orchestrator runs on one asyncio event loop.  Every handler and    *)
(* every coroutine body runs atomically between two awaits; the only      *)
(* awaits inside process_emergency and resolve_emergency are the Redis    *)
(* publishes.  Each action below is one such atomic stretch of code.      *)
(*                                                                         *)
(* Abstractions: a timestamp is modelled by whether it is set, and        *)
(* last_seen_at by the handler that stamped it last; of an                *)
(* Emergency the map keeps the fields the orchestrator writes (status,     *)
(* dispatched_at, resolved_at), its location and units_required being      *)
(* inputs of the call that are never written again; a vehicle             *)
(* id "AMB-001" is the pair <<"AMB", 1>>; a location is a latitude in     *)
(* whole degrees on one meridian; an optional value is <<>> (None) or     *)
(* <<x>>.                                                                  *)
(*                                                                         *)
(* The vehicle agents are separate processes: each has a command listener  *)
(* task and a tick loop and shares nothing with the others; what the       *)
(* orchestrator publishes reaches a listener through Redis pub/sub, at     *)
(* most once.  A JSON text is modelled by what json.loads makes of it.     *)
(***************************************************************************)
EXTENDS Integers, Sequences, FiniteSets, TLC

VARIABLES
    fleet,        \* OrchestratorAgent.fleet: vehicle_id -> VehicleStatusSnapshot
    fleetOrder,   \* insertion order of the fleet dict (what .values() iterates)
    emergencies,  \* OrchestratorAgent.emergencies: emergency_id -> Emergency
    dispatches,   \* OrchestratorAgent.dispatches: emergency_id -> Dispatch
    redis,        \* whether OrchestratorAgent._redis is set (start() has run)
    procCalls,    \* process_emergency calls: emergency_id -> [pc, i]
    resCalls,     \* resolve_emergency calls: emergency_id -> [pc, released]
    lastCall,     \* the arguments of the process_emergency call whose
                  \* synchronous part was the last step taken, else None
    published,    \* the messages the orchestrator has published on Redis
    rejected,     \* the error the last step ended with (KeyError, or the
                  \* API's NotFound / Conflict), else None
    listener,     \* OrchestratorAgent.run(): "stopped", "listening", or
                  \* "failed" once an exception has left the loop
    attempts,     \* the publish calls of process_emergency in call order,
                  \* each with its outcome (kept where publishes may fail)
    agents,       \* VehicleAgent per vehicle id: operational_status,
                  \* current_emergency_id, whether its command listener runs,
                  \* and the data that listener handled last
    delivered,    \* the <<vehicle_id, message>> pairs Redis has handed to
                  \* the command listener of that vehicle
    heartbeat_counter,  \* VehicleAgent.heartbeat_counter of one agent
    sequence_number,    \* SimpleTelemetryGenerator.sequence_number of that agent
    ticks,        \* the number of _tick() calls that agent has executed
    lastTick,     \* what the last _tick() call did, else None
    alerted,      \* the sources of the alert messages the orchestrator has
                  \* handled (kept where the order of messages matters)
    orchRun,      \* one OrchestratorAgent.run() call: where it is, running,
                  \* and what became of the connection and the subscription
    agentRun,     \* one VehicleAgent.run() call: where it is, running, the
                  \* command listener task and the Redis client
    active_scenarios,  \* FailureInjector.active_scenarios of one agent:
                  \* scenario -> minutes elapsed since its activation
    telemetry,    \* the record a running tick has after apply_failures, None
                  \* between ticks
    alerts        \* what analyze returned for that record

\* The state of the vehicle agents
agentVars == <<agents, delivered, heartbeat_counter, sequence_number, ticks, lastTick>>

\* The state of the run() calls, of the telemetry pipeline of a tick, and the
\* log of handled alerts
runVars == <<alerted, orchRun, agentRun, active_scenarios, telemetry, alerts>>

vars == <<fleet, fleetOrder, emergencies, dispatches, redis, procCalls, resCalls,
          lastCall, published, rejected, listener, attempts, agentVars, runVars>>

----------------------------------------------------------------------------
(* Bounds and input domains *)

MaxFleet == 2       \* vehicles registered at once
MaxRequired == 2    \* units of one type an emergency asks for

EmergencyIds == {1, 2}
Latitudes == {0, 1}
VehicleIds == {<<"AMB", 1>>, <<"AMB", 2>>, <<"POL", 1>>}

None == <<>>
Some(x) == <<x>>

Range(s) == {s[i] : i \in 1..Len(s)}
Min(a, b) == IF a <= b THEN a ELSE b
Abs(x) == IF x < 0 THEN -x ELSE x

----------------------------------------------------------------------------
(* Models *)

EarthRadiusKm == 6371

\* UnitsRequired: non-negative counts per vehicle type.
UnitsRequiredChoices ==
    [ambulances : 0..MaxRequired, fire_trucks : {0}, police : 0..1]

\* Mutant of InferVehicleType: the prefix is not looked at.
InferAmbulance(vehicle_id) == "ambulance"

\* _infer_vehicle_type: the type from the (upper-cased) id prefix.
InferVehicleType(vehicle_id) ==
    IF vehicle_id[1] = "AMB" THEN "ambulance"
    ELSE IF vehicle_id[1] = "FIRE" THEN "fire_truck"
    ELSE IF vehicle_id[1] = "POL" THEN "police"
    ELSE "ambulance"

\* Mutant of NewSnapshot: the snapshot is built under a fixed vehicle_id.
NewSnapshotFixedId(vehicle_id) ==
    [vehicle_id |-> <<"AMB", 1>>,
     vehicle_type |-> InferVehicleType(vehicle_id),
     operational_status |-> "idle",
     location |-> None,
     current_emergency_id |-> None,
     last_seen_at |-> "created",
     battery_voltage |-> None,
     fuel_level_percent |-> None,
     has_active_alert |-> FALSE]

\* VehicleStatusSnapshot as _handle_telemetry constructs it.
NewSnapshot(vehicle_id) ==
    [vehicle_id |-> vehicle_id,
     vehicle_type |-> InferVehicleType(vehicle_id),
     operational_status |-> "idle",
     location |-> None,
     current_emergency_id |-> None,
     last_seen_at |-> "created",
     battery_voltage |-> None,
     fuel_level_percent |-> None,
     has_active_alert |-> FALSE]

\* VehicleStatusSnapshot.is_available
IsAvailable(snap) ==
    snap.operational_status = "idle" /\ ~snap.has_active_alert

\* _haversine_km for two points of one meridian (dlon = 0, so
\* h = sin^2(dlat/2) and the distance is r * radians(|dlat|)), in whole km.
HaversineKm(a, b) ==
    (EarthRadiusKm * 31416 * Abs(a - b)) \div (180 * 10000)

----------------------------------------------------------------------------
(* DispatchEngine *)

\* Mutant of IsCandidate: the vehicle type is not compared.
IsCandidateAnyType(snap, vehicle_type) ==
    /\ IsAvailable(snap)
    /\ snap.location # None

\* The filter of _get_available_candidates.
IsCandidate(snap, vehicle_type) ==
    /\ snap.vehicle_type = vehicle_type
    /\ IsAvailable(snap)
    /\ snap.location # None

\* The sort key of _get_available_candidates.
SortKey(snap, location) == HaversineKm(snap.location[1], location)

\* Mutant of InsertSorted: the candidates are left in dict order.
InsertUnsorted(sorted, v, fl, location) == Append(sorted, v)

\* list.sort(key=...) is stable: an element goes after every element whose
\* key is not larger.
InsertSorted(sorted, v, fl, location) ==
    LET k == Cardinality({i \in 1..Len(sorted) :
                 SortKey(fl[sorted[i]], location) <= SortKey(fl[v], location)})
    IN SubSeq(sorted, 1, k) \o <<v>> \o SubSeq(sorted, k + 1, Len(sorted))

RECURSIVE SortByDistance(_, _, _)
SortByDistance(cands, fl, location) ==
    IF cands = <<>> THEN <<>>
    ELSE InsertSorted(SortByDistance(SubSeq(cands, 1, Len(cands) - 1), fl, location),
                      cands[Len(cands)], fl, location)

\* _get_available_candidates: the ids of the candidate snapshots,
\* filtered in dict order and sorted nearest-first.
GetAvailableCandidates(fl, order, vehicle_type, location) ==
    SortByDistance(
        SelectSeq(order, LAMBDA v : IsCandidate(fl[v], vehicle_type)),
        fl, location)

\* Mutant of Chosen: every candidate is taken.
ChosenAll(candidates, count) == candidates

\* candidates[:count]
Chosen(candidates, count) == SubSeq(candidates, 1, Min(count, Len(candidates)))

\* Mutant of Assign: the emergency id is recorded, the status is left alone.
AssignWithoutStatus(snap, emergency_id) ==
    [snap EXCEPT !.current_emergency_id = Some(emergency_id)]

\* Mutant of Assign: the status is set, the emergency id is not recorded.
AssignNoEmergency(snap, emergency_id) ==
    [snap EXCEPT !.operational_status = "en_route"]

\* The in-place reservation of select_units.
Assign(snap, emergency_id) ==
    [snap EXCEPT !.operational_status = "en_route",
                 !.current_emergency_id = Some(emergency_id)]

DispatchedUnit(snap) ==
    [vehicle_id |-> snap.vehicle_id, vehicle_type |-> snap.vehicle_type]

TypeRequirements(required) ==
    << <<"ambulance", required.ambulances>>,
       <<"fire_truck", required.fire_trucks>>,
       <<"police", required.police>> >>

\* The loop of select_units over type_requirements.
RECURSIVE SelectLoop(_, _, _, _, _, _)
SelectLoop(fl, order, emergency_id, location, reqs, units) ==
    IF reqs = <<>> THEN [fleet |-> fl, units |-> units]
    ELSE LET vehicle_type == Head(reqs)[1]
             count == Head(reqs)[2]
         IN IF count = 0
            THEN SelectLoop(fl, order, emergency_id, location, Tail(reqs), units)
            ELSE LET chosen == Chosen(GetAvailableCandidates(fl, order, vehicle_type, location),
                                      count)
                 IN SelectLoop(
                        [v \in DOMAIN fl |->
                            IF v \in Range(chosen) THEN Assign(fl[v], emergency_id)
                            ELSE fl[v]],
                        order, emergency_id, location, Tail(reqs),
                        units \o [i \in 1..Len(chosen) |-> DispatchedUnit(fl[chosen[i]])])

\* DispatchEngine.select_units: the fleet after the reservation and the Dispatch.
SelectUnits(fl, order, emergency_id, location, required) ==
    LET r == SelectLoop(fl, order, emergency_id, location,
                        TypeRequirements(required), <<>>)
    IN [fleet |-> r.fleet,
        dispatch |-> [emergency_id |-> emergency_id, units |-> r.units]]

\* Dispatch.vehicle_ids
VehicleIdsOf(dispatch) == [i \in 1..Len(dispatch.units) |-> dispatch.units[i].vehicle_id]

\* Mutant of Release: the release also clears the active alert.
ReleaseClearAlert(snap) ==
    [snap EXCEPT !.operational_status = "idle", !.current_emergency_id = None,
                 !.has_active_alert = FALSE]

\* Mutant of Release: the emergency id is cleared, the status is left
\* en_route.
ReleaseKeepEnRoute(snap) ==
    [snap EXCEPT !.current_emergency_id = None]

\* The release of one snapshot in release_units.
Release(snap) ==
    [snap EXCEPT !.operational_status = "idle", !.current_emergency_id = None]

\* Mutant of ReleaseUnits: every vehicle on a mission is released.
ReleaseUnitsAll(fl, order, emergency_id) ==
    [fleet |-> [v \in DOMAIN fl |->
                   IF fl[v].current_emergency_id # None THEN Release(fl[v]) ELSE fl[v]],
     released |-> SelectSeq(order, LAMBDA v : fl[v].current_emergency_id # None)]

\* DispatchEngine.release_units: the fleet after the release and the released ids.
ReleaseUnits(fl, order, emergency_id) ==
    [fleet |-> [v \in DOMAIN fl |->
                   IF fl[v].current_emergency_id = Some(emergency_id)
                   THEN Release(fl[v]) ELSE fl[v]],
     released |-> SelectSeq(order,
                     LAMBDA v : fl[v].current_emergency_id = Some(emergency_id))]

----------------------------------------------------------------------------
(* VehicleAgent construction *)

\* OperationalStatus
OperationalStatuses ==
    {"idle", "en_route", "on_scene", "returning", "maintenance", "out_of_service",
     "offline"}

\* VehicleAgent.__init__ with config.initial_status; the command listener
\* task is created by start().  `handled` is the data the listener handled
\* last, None before the first.
NewAgent(initial_status) ==
    [operational_status |-> initial_status, current_emergency_id |-> None,
     listening |-> TRUE, handled |-> None]

\* What VehicleAgent.__init__ leaves of the run state: not running, no
\* command listener task, a Redis client that has not connected.
NewAgentRun == [pc |-> "idle", running |-> FALSE, task |-> "none", client |-> "none"]

\* The components VehicleAgent.__init__ builds: no scenario is active and no
\* tick has produced a record.
InitComponents ==
    /\ agentRun = NewAgentRun
    /\ active_scenarios = <<>>
    /\ telemetry = None
    /\ alerts = <<>>

\* Agents constructed with the default configuration, counters at zero.
InitAgents ==
    /\ InitComponents
    /\ agents = [v \in VehicleIds |-> NewAgent("idle")]
    /\ delivered = {}
    /\ heartbeat_counter = 0
    /\ sequence_number = 0
    /\ ticks = 0
    /\ lastTick = None

----------------------------------------------------------------------------
(* OrchestratorAgent *)

\* What OrchestratorAgent.__init__ leaves of the run state: running False,
\* _redis and _pubsub None.
NewOrchRun == [pc |-> "idle", running |-> FALSE, redis_conn |-> "none", pubsub |-> "none"]

\* OrchestratorAgent.__init__
InitOrchestrator ==
    /\ alerted = {}
    /\ orchRun = NewOrchRun
    /\ fleet = <<>>
    /\ fleetOrder = <<>>
    /\ emergencies = <<>>
    /\ dispatches = <<>>
    /\ redis = FALSE
    /\ procCalls = [e \in EmergencyIds |-> [pc |-> "none", i |-> 0]]
    /\ resCalls = [e \in EmergencyIds |-> [pc |-> "none", released |-> <<>>]]
    /\ lastCall = None
    /\ published = {}
    /\ rejected = None
    /\ listener = "stopped"
    /\ attempts = <<>>

Init == InitOrchestrator /\ InitAgents

\* start(): the Redis client is created.
Start ==
    /\ ~redis
    /\ redis' = TRUE
    /\ UNCHANGED <<listener, attempts, agentVars, runVars>>
    /\ lastCall' = None
    /\ rejected' = None
    /\ UNCHANGED <<fleet, fleetOrder, emergencies, dispatches, procCalls, resCalls,
                   published>>

\* Telemetry payload locations: absent, malformed, or a valid location.
\* <<kind, latitude>>; the latitude matters only for kind "valid".
TelemetryLocations ==
    {<<"absent", 0>>, <<"malformed", 0>>} \cup {<<"valid", lat>> : lat \in Latitudes}

\* Mutant of ApplyTelemetry: telemetry also puts the vehicle back to idle.
ApplyTelemetryResetStatus(snap, loc) ==
    IF loc[1] = "valid"
    THEN [snap EXCEPT !.location = Some(loc[2]), !.operational_status = "idle"]
    ELSE [snap EXCEPT !.operational_status = "idle"]

\* The field updates of _handle_telemetry: the location when it parses.
ApplyTelemetry(snap, loc) ==
    IF loc[1] = "valid" THEN [snap EXCEPT !.location = Some(loc[2])] ELSE snap

\* The telemetry payloads: a location entry (absent, malformed or valid) and
\* the optional numeric battery_voltage and fuel_level_percent keys.
TelemetryPayloads ==
    [location : TelemetryLocations,
     battery_voltage : {None, Some(12)},
     fuel_level_percent : {None, Some(50)}]

\* A telemetry payload that carries the location entry only.
LocationOnly(loc) ==
    [location |-> loc, battery_voltage |-> None, fuel_level_percent |-> None]

\* `snap.last_seen_at = datetime.utcnow()` in the handler named by `handler`.
Seen(snap, handler) == [snap EXCEPT !.last_seen_at = handler]

\* The health metrics of _handle_telemetry: each key is copied when present.
ApplyHealth(snap, telemetry_data) ==
    [snap EXCEPT
        !.battery_voltage = IF telemetry_data.battery_voltage # None
                            THEN telemetry_data.battery_voltage ELSE @,
        !.fuel_level_percent = IF telemetry_data.fuel_level_percent # None
                               THEN telemetry_data.fuel_level_percent ELSE @]

\* _handle_telemetry: register an unknown vehicle, then apply the payload.
HandleTelemetryData(vehicle_id, telemetry_data) ==
    LET snap == IF vehicle_id \in DOMAIN fleet THEN fleet[vehicle_id]
                ELSE NewSnapshot(vehicle_id)
        updated == ApplyHealth(
                       ApplyTelemetry(Seen(snap, "telemetry"), telemetry_data.location),
                       telemetry_data)
    IN /\ vehicle_id \in DOMAIN fleet \/ Len(fleetOrder) < MaxFleet
       /\ fleet' = [v \in DOMAIN fleet \cup {vehicle_id} |->
                       IF v = vehicle_id THEN updated ELSE fleet[v]]
       /\ fleetOrder' = IF vehicle_id \in DOMAIN fleet THEN fleetOrder
                        ELSE Append(fleetOrder, vehicle_id)
       /\ UNCHANGED <<listener, attempts, agentVars, runVars>>
       /\ lastCall' = None
       /\ rejected' = None
       /\ UNCHANGED <<emergencies, dispatches, redis, procCalls, resCalls, published>>

\* _handle_telemetry for a payload with the location entry only
HandleTelemetry(vehicle_id, loc) == HandleTelemetryData(vehicle_id, LocationOnly(loc))

\* Mutant of Heartbeat: the heartbeat also clears the active alert.
HeartbeatClearAlert(fl, vehicle_id) ==
    IF vehicle_id \in DOMAIN fl
    THEN [fl EXCEPT ![vehicle_id].last_seen_at = "heartbeat",
                    ![vehicle_id].has_active_alert = FALSE]
    ELSE fl

\* Mutant of Heartbeat: a heartbeat registers an unknown vehicle.
HeartbeatRegister(fl, vehicle_id) ==
    [v \in DOMAIN fl \cup {vehicle_id} |->
        IF v # vehicle_id THEN fl[v]
        ELSE Seen(IF v \in DOMAIN fl THEN fl[v] ELSE NewSnapshot(v), "heartbeat")]

\* The fleet map after _handle_heartbeat: last_seen_at of a known vehicle.
Heartbeat(fl, vehicle_id) ==
    IF vehicle_id \in DOMAIN fl
    THEN [fl EXCEPT ![vehicle_id] = Seen(@, "heartbeat")]
    ELSE fl

\* _handle_heartbeat
HandleHeartbeat(vehicle_id) ==
    /\ fleet' = Heartbeat(fleet, vehicle_id)
    /\ UNCHANGED <<listener, attempts, agentVars, runVars>>
    /\ lastCall' = None
    /\ rejected' = None
    /\ UNCHANGED <<fleetOrder, emergencies, dispatches, redis, procCalls, resCalls,
                   published>>

\* Mutant of Alert: the alert is received and the flag is not set.
AlertNotRecorded(fl, vehicle_id) == fl

\* The fleet map after _handle_alert: has_active_alert of a known vehicle.
Alert(fl, vehicle_id) ==
    IF vehicle_id \in DOMAIN fl
    THEN [fl EXCEPT ![vehicle_id].has_active_alert = TRUE]
    ELSE fl

\* _handle_alert
HandleAlert(vehicle_id) ==
    /\ fleet' = Alert(fleet, vehicle_id)
    /\ UNCHANGED <<listener, attempts, agentVars, runVars>>
    /\ lastCall' = None
    /\ rejected' = None
    /\ UNCHANGED <<fleetOrder, emergencies, dispatches, redis, procCalls, resCalls,
                   published>>

\* Emergency as the API builds it: status pending, no timestamps.
NewEmergency ==
    [status |-> "pending", dispatched_at |-> FALSE, resolved_at |-> FALSE]

\* Mutant of Dispatched: the status is dispatched whatever was assigned.
DispatchedAlways(emergency, dispatch) ==
    [emergency EXCEPT !.status = "dispatched", !.dispatched_at = TRUE]

\* The status update of process_emergency.
Dispatched(emergency, dispatch) ==
    IF dispatch.units # <<>>
    THEN [emergency EXCEPT !.status = "dispatched", !.dispatched_at = TRUE]
    ELSE [emergency EXCEPT !.status = "dispatching"]

\* Where process_emergency is first suspended, or that it has returned.
AfterSelection(dispatch) ==
    IF ~redis THEN [pc |-> "returned", i |-> 0]
    ELSE IF dispatch.units # <<>> THEN [pc |-> "command", i |-> 1]
    ELSE [pc |-> "broadcast", i |-> 0]

\* Mutant of ProcessEmergency: an emergency left in dispatching is processed
\* again (a retry of the deferred dispatch).
ProcessEmergencyRetry(emergency_id, location, required) ==
    /\ emergency_id \in EmergencyIds
    /\ \/ emergency_id = Cardinality(DOMAIN emergencies) + 1
       \/ /\ emergency_id \in DOMAIN emergencies
          /\ emergencies[emergency_id].status = "dispatching"
    /\ LET emergency == NewEmergency
           sel == SelectUnits(fleet, fleetOrder, emergency_id, location, required)
       IN /\ fleet' = sel.fleet
          /\ dispatches' = [e \in DOMAIN dispatches \cup {emergency_id} |->
                               IF e = emergency_id THEN sel.dispatch ELSE dispatches[e]]
          /\ emergencies' = [e \in DOMAIN emergencies \cup {emergency_id} |->
                               IF e = emergency_id THEN Dispatched(emergency, sel.dispatch)
                               ELSE emergencies[e]]
          /\ procCalls' = [procCalls EXCEPT ![emergency_id] = AfterSelection(sel.dispatch)]
    /\ UNCHANGED <<listener, attempts, agentVars, runVars>>
    /\ lastCall' = Some([emergency_id |-> emergency_id, location |-> location,
                         units_required |-> required])
    /\ rejected' = None
    /\ UNCHANGED <<fleetOrder, redis, resCalls, published>>

\* process_emergency up to its first await: store, select, set the status.
\* Emergency ids are fresh UUIDs: the next unused id is taken.
ProcessEmergency(emergency_id, location, required) ==
    /\ emergency_id = Cardinality(DOMAIN emergencies) + 1
    /\ emergency_id \in EmergencyIds
    /\ LET emergency == NewEmergency
           sel == SelectUnits(fleet, fleetOrder, emergency_id, location, required)
       IN /\ fleet' = sel.fleet
          /\ dispatches' = [e \in DOMAIN dispatches \cup {emergency_id} |->
                               IF e = emergency_id THEN sel.dispatch ELSE dispatches[e]]
          /\ emergencies' = [e \in DOMAIN emergencies \cup {emergency_id} |->
                               IF e = emergency_id THEN Dispatched(emergency, sel.dispatch)
                               ELSE emergencies[e]]
          /\ procCalls' = [procCalls EXCEPT ![emergency_id] = AfterSelection(sel.dispatch)]
    /\ UNCHANGED <<listener, attempts, agentVars, runVars>>
    /\ lastCall' = Some([emergency_id |-> emergency_id, location |-> location,
                         units_required |-> required])
    /\ rejected' = None
    /\ UNCHANGED <<fleetOrder, redis, resCalls, published>>

\* A published message: the topic kind, the emergency and the vehicles named
\* (the vehicle whose command topic it is, assigned_vehicles, released_vehicles).
Message(kind, emergency_id, vehicles) ==
    [kind |-> kind, emergency_id |-> emergency_id, vehicles |-> vehicles]

\* One `await self._redis.publish(channel, ...)` of the command loop completes
\* and the loop goes on to the next unit.
PublishCommand(emergency_id) ==
    /\ procCalls[emergency_id].pc = "command"
    /\ published' = published \cup
           {Message("command", emergency_id,
                    <<dispatches[emergency_id].units[procCalls[emergency_id].i].vehicle_id>>)}
    /\ procCalls' = [procCalls EXCEPT ![emergency_id] =
           IF @.i < Len(dispatches[emergency_id].units)
           THEN [pc |-> "command", i |-> @.i + 1]
           ELSE [pc |-> "broadcast", i |-> 0]]
    /\ UNCHANGED <<listener, attempts, agentVars, runVars>>
    /\ lastCall' = None
    /\ rejected' = None
    /\ UNCHANGED <<fleet, fleetOrder, emergencies, dispatches, redis, resCalls>>

\* The broadcast publish completes and process_emergency returns.
PublishBroadcast(emergency_id) ==
    /\ procCalls[emergency_id].pc = "broadcast"
    /\ published' = published \cup
           {Message("assigned", emergency_id, VehicleIdsOf(dispatches[emergency_id]))}
    /\ procCalls' = [procCalls EXCEPT ![emergency_id] = [pc |-> "returned", i |-> 0]]
    /\ UNCHANGED <<listener, attempts, agentVars, runVars>>
    /\ lastCall' = None
    /\ rejected' = None
    /\ UNCHANGED <<fleet, fleetOrder, emergencies, dispatches, redis, resCalls>>

\* Mutant of Resolved: the emergency goes back to dispatching.
Requeued(emergency) ==
    [emergency EXCEPT !.status = "dispatching", !.resolved_at = TRUE]

\* The status update of resolve_emergency.
Resolved(emergency) ==
    [emergency EXCEPT !.status = "resolved", !.resolved_at = TRUE]

\* Mutant of EmergencyKnown: the lookup never fails.
EmergencyKnownAlways(emergency_id) == TRUE

\* Whether `self.emergencies[emergency_id]` finds the emergency.
EmergencyKnown(emergency_id) == emergency_id \in DOMAIN emergencies

\* resolve_emergency up to its await: the lookup raises KeyError for an
\* unknown id; otherwise mark resolved and release the units.
ResolveEmergency(emergency_id) ==
    /\ IF ~EmergencyKnown(emergency_id)
       THEN /\ rejected' = Some([emergency_id |-> emergency_id, error |-> "KeyError"])
            /\ UNCHANGED <<emergencies, fleet, resCalls>>
       ELSE LET rel == ReleaseUnits(fleet, fleetOrder, emergency_id)
            IN /\ emergencies' = [e \in DOMAIN emergencies |->
                      IF e = emergency_id
                      THEN Resolved(emergencies[e]) ELSE emergencies[e]]
               /\ fleet' = rel.fleet
               /\ resCalls' = [resCalls EXCEPT ![emergency_id] =
                      [pc |-> IF redis THEN "publish" ELSE "returned",
                       released |-> rel.released]]
               /\ rejected' = None
    /\ UNCHANGED <<listener, attempts, agentVars, runVars>>
    /\ lastCall' = None
    /\ UNCHANGED <<fleetOrder, dispatches, redis, procCalls, published>>

\* The resolution broadcast completes and resolve_emergency returns.
PublishResolved(emergency_id) ==
    /\ resCalls[emergency_id].pc = "publish"
    /\ published' = published \cup
           {Message("resolved", emergency_id, resCalls[emergency_id].released)}
    /\ resCalls' = [resCalls EXCEPT ![emergency_id].pc = "returned"]
    /\ UNCHANGED <<listener, attempts, agentVars, runVars>>
    /\ lastCall' = None
    /\ rejected' = None
    /\ UNCHANGED <<fleet, fleetOrder, emergencies, dispatches, redis, procCalls>>

\* Mutant of RouteError: an already resolved emergency is not refused.
RouteErrorNoConflict(emergency_id) ==
    IF emergency_id \notin DOMAIN emergencies THEN "NotFound" ELSE "none"

\* POST /emergencies/{id}/resolve: the HTTPException raised before the
\* orchestrator is called (404, 409), or "none".
RouteError(emergency_id) ==
    IF emergency_id \notin DOMAIN emergencies THEN "NotFound"
    ELSE IF emergencies[emergency_id].status = "resolved" THEN "Conflict"
    ELSE "none"

\* POST /emergencies/{id}/resolve when no error is raised
ApiResolveEmergency(emergency_id) ==
    /\ RouteError(emergency_id) = "none"
    /\ ResolveEmergency(emergency_id)

\* POST /emergencies/{id}/resolve answered with 404 or 409
ApiResolveRejected(emergency_id) ==
    /\ RouteError(emergency_id) # "none"
    /\ rejected' = Some([emergency_id |-> emergency_id,
                         error |-> RouteError(emergency_id)])
    /\ UNCHANGED <<listener, attempts, agentVars, runVars>>
    /\ lastCall' = None
    /\ UNCHANGED <<fleet, fleetOrder, emergencies, dispatches, redis, procCalls,
                   resCalls, published>>

\* OrchestratorAgent.resolve_emergency called with an id it does not hold
ResolveUnknownEmergency(emergency_id) ==
    /\ emergency_id \notin DOMAIN emergencies
    /\ ResolveEmergency(emergency_id)

\* The location entries and the payloads of vehicles that stand at latitude 0.
LocationsAtOrigin == {loc \in TelemetryLocations : loc[2] = 0}
PayloadsAtOrigin == {data \in TelemetryPayloads : data.location \in LocationsAtOrigin}

\* The orchestrator with its Redis connection: calls are suspended at their
\* publishes and overlap with each other and with the telemetry of vehicles
\* that stand at latitude 0.
Next ==
    \/ Start
    \/ \E v \in VehicleIds, loc \in LocationsAtOrigin : HandleTelemetry(v, loc)
    \/ \E e \in EmergencyIds, loc \in Latitudes, req \in UnitsRequiredChoices :
           ProcessEmergency(e, loc, req)
    \/ \E e \in EmergencyIds : PublishCommand(e)
    \/ \E e \in EmergencyIds : PublishBroadcast(e)
    \/ \E e \in EmergencyIds : ApiResolveEmergency(e)
    \/ \E e \in EmergencyIds : PublishResolved(e)

Spec == Init /\ [][Next]_vars

\* The orchestrator without a Redis connection (start() not called): every
\* call returns without being suspended; telemetry and alerts come in.
NextSeq ==
    \/ \E v \in VehicleIds, loc \in TelemetryLocations : HandleTelemetry(v, loc)
    \/ \E v \in VehicleIds : HandleAlert(v)
    \/ \E e \in EmergencyIds, loc \in Latitudes, req \in UnitsRequiredChoices :
           ProcessEmergency(e, loc, req)
    \/ \E e \in EmergencyIds : ApiResolveEmergency(e)

SpecSeq == Init /\ [][NextSeq]_vars

\* The vehicles that send telemetry in the runs below; the third vehicle of
\* VehicleIds sends heartbeats and alerts only and so stays unknown.
TelemetrySources == {<<"AMB", 1>>, <<"POL", 1>>}

\* The emergencies of the runs below: at latitude 0, at most one unit per type.
SingleUnitChoices == [ambulances : 0..1, fire_trucks : {0}, police : 0..1]

\* The ingress side in full, without a Redis connection: telemetry with all
\* its payload keys, heartbeats and alerts from known and unknown vehicles,
\* between process_emergency and resolve calls.
NextIngress ==
    \/ \E v \in TelemetrySources, data \in PayloadsAtOrigin :
           HandleTelemetryData(v, data)
    \/ \E v \in VehicleIds : HandleHeartbeat(v)
    \/ \E v \in VehicleIds : HandleAlert(v)
    \/ \E e \in EmergencyIds, req \in SingleUnitChoices : ProcessEmergency(e, 0, req)
    \/ \E e \in EmergencyIds : ApiResolveEmergency(e)

SpecIngress == Init /\ [][NextIngress]_vars

\* The resolve entry points with their error answers, with a Redis
\* connection: resolve requests overlap each other and process_emergency.
NextApi ==
    \/ Start
    \/ \E v \in TelemetrySources : HandleTelemetry(v, <<"valid", 0>>)
    \/ \E e \in EmergencyIds, req \in SingleUnitChoices : ProcessEmergency(e, 0, req)
    \/ \E e \in EmergencyIds : PublishCommand(e)
    \/ \E e \in EmergencyIds : PublishBroadcast(e)
    \/ \E e \in EmergencyIds : ApiResolveEmergency(e)
    \/ \E e \in EmergencyIds : ApiResolveRejected(e)
    \/ \E e \in EmergencyIds : ResolveUnknownEmergency(e)
    \/ \E e \in EmergencyIds : PublishResolved(e)

SpecApi == Init /\ [][NextApi]_vars

----------------------------------------------------------------------------
(* OrchestratorAgent.run: the listener loop *)

\* run(): start() connects and subscribes, then the loop listens.
Run ==
    /\ listener = "stopped"
    /\ ~redis
    /\ listener' = "listening"
    /\ redis' = TRUE
    /\ lastCall' = None
    /\ rejected' = None
    /\ UNCHANGED <<fleet, fleetOrder, emergencies, dispatches, procCalls, resCalls,
                   published, attempts, agentVars,
                   runVars>>

\* The values of the health keys as they stand in the JSON payload: a
\* number, or something float() cannot convert.
WireValues == {"12", "50", "abc"}

\* float(value) of a payload key: the number, or None where it raises
\* ValueError.
Float(value) ==
    CASE value = "12" -> Some(12)
      [] value = "50" -> Some(50)
      [] OTHER -> None

\* Whether `float(telemetry_data[key])` raises: the key is present and its
\* value does not convert.
FloatRaises(entry) == entry # None /\ Float(entry[1]) = None

\* The telemetry payloads on the wire: each health key absent or any value.
WirePayloads ==
    [location : LocationsAtOrigin,
     battery_voltage : {None} \cup {Some(x) : x \in WireValues},
     fuel_level_percent : {None} \cup {Some(x) : x \in WireValues}]

\* The payload with its health keys converted (for a payload that converts).
Converted(wire) ==
    [location |-> wire.location,
     battery_voltage |-> IF wire.battery_voltage = None THEN None
                         ELSE Float(wire.battery_voltage[1]),
     fuel_level_percent |-> IF wire.fuel_level_percent = None THEN None
                            ELSE Float(wire.fuel_level_percent[1])]

\* The raw pub/sub messages: data that is empty or not a string, data that
\* is not a Message envelope, an envelope of a type the orchestrator does
\* not handle, and the three vehicle streams.
RawMessages ==
    [kind : {"not_string", "invalid", "unhandled"}, source : {<<"AMB", 1>>},
       telemetry : {LocationOnly(<<"absent", 0>>)}]
    \cup [kind : {"heartbeat", "alert"}, source : VehicleIds,
          telemetry : {LocationOnly(<<"absent", 0>>)}]
    \cup [kind : {"telemetry"}, source : TelemetrySources, telemetry : WirePayloads]

\* _handle_telemetry when a float() raises: the snapshot is registered,
\* stamped and located by then, battery_voltage is written when it is the
\* second conversion that raises; the exception leaves _handle_raw_message,
\* run() logs it, calls stop() and raises it again.
HandleTelemetryRaises(vehicle_id, wire) ==
    LET snap == IF vehicle_id \in DOMAIN fleet THEN fleet[vehicle_id]
                ELSE NewSnapshot(vehicle_id)
        located == ApplyTelemetry(Seen(snap, "telemetry"), wire.location)
        updated == IF FloatRaises(wire.battery_voltage) \/ wire.battery_voltage = None
                   THEN located
                   ELSE [located EXCEPT !.battery_voltage = Float(wire.battery_voltage[1])]
    IN /\ vehicle_id \in DOMAIN fleet \/ Len(fleetOrder) < MaxFleet
       /\ fleet' = [v \in DOMAIN fleet \cup {vehicle_id} |->
                       IF v = vehicle_id THEN updated ELSE fleet[v]]
       /\ fleetOrder' = IF vehicle_id \in DOMAIN fleet THEN fleetOrder
                        ELSE Append(fleetOrder, vehicle_id)
       /\ listener' = "failed"
       /\ lastCall' = None
       /\ rejected' = None
       /\ UNCHANGED <<emergencies, dispatches, redis, procCalls, resCalls, published,
                      attempts, agentVars,
                      runVars>>

\* A message that _handle_raw_message drops: nothing is written.
DropMessage ==
    /\ lastCall' = None
    /\ rejected' = None
    /\ UNCHANGED <<fleet, fleetOrder, emergencies, dispatches, redis, procCalls,
                   resCalls, published, listener, attempts, agentVars,
                   runVars>>

\* One iteration of the loop of run(): _handle_raw_message on a message.
HandleRawMessage(raw) ==
    /\ listener = "listening"
    /\ CASE raw.kind \in {"not_string", "invalid", "unhandled"} -> DropMessage
         [] raw.kind = "heartbeat" -> HandleHeartbeat(raw.source)
         [] raw.kind = "alert" -> HandleAlert(raw.source)
         [] raw.kind = "telemetry" ->
              IF FloatRaises(raw.telemetry.battery_voltage)
                 \/ FloatRaises(raw.telemetry.fuel_level_percent)
              THEN HandleTelemetryRaises(raw.source, raw.telemetry)
              ELSE HandleTelemetryData(raw.source, Converted(raw.telemetry))

\* The listener task alone: run() and the messages Redis hands to it.
NextListener ==
    \/ Run
    \/ \E raw \in RawMessages : HandleRawMessage(raw)

SpecListener == Init /\ [][NextListener]_vars

----------------------------------------------------------------------------
(* VehicleAgent: the command listener *)

\* The lists a released_vehicles key carries.
ReleasedLists ==
    {<<>>, <<<<"AMB", 1>>>>, <<<<"POL", 1>>>>, <<<<"AMB", 1>>, <<"POL", 1>>>>}

\* The data a command listener reads: text that is not JSON ("invalid"),
\* JSON that is not an object ("value": a list, a number, null), or a JSON
\* object with its optional command, emergency_id and released_vehicles keys:
\* dispatch commands, resolve commands, and objects with no command or an
\* unknown one.
CommandPayloads ==
    [json : {"invalid", "value"}, command : {None}, emergency_id : {None},
       released_vehicles : {None}]
    \cup [json : {"object"}, command : {Some("dispatch")},
          emergency_id : {None} \cup {Some(e) : e \in EmergencyIds},
          released_vehicles : {None}]
    \cup [json : {"object"}, command : {Some("resolve")}, emergency_id : {Some(1)},
          released_vehicles : {None} \cup {Some(l) : l \in ReleasedLists}]
    \cup [json : {"object"}, command : {None, Some("status")},
          emergency_id : {None, Some(1)},
          released_vehicles : {None, Some(<<<<"AMB", 1>>, <<"POL", 1>>>>)}]

\* payload.get(key, default)
Get(entry, default) == IF entry = None THEN default ELSE entry[1]

\* Mutant of DispatchCommand: the vehicle's status is left as it was.
DispatchKeepStatus(agent, payload) ==
    [agent EXCEPT !.current_emergency_id = payload.emergency_id]

\* The dispatch branch of _handle_command.
DispatchCommand(agent, payload) ==
    [agent EXCEPT !.operational_status = "en_route",
                  !.current_emergency_id = payload.emergency_id]

\* Mutant of ResolveCommand: every resolve returns the vehicle to idle.
ResolveAlways(agent, vehicle_id, payload) ==
    [agent EXCEPT !.operational_status = "idle", !.current_emergency_id = None]

\* The resolve branch of _handle_command.
ResolveCommand(agent, vehicle_id, payload) ==
    IF vehicle_id \in Range(Get(payload.released_vehicles, <<>>))
    THEN [agent EXCEPT !.operational_status = "idle", !.current_emergency_id = None]
    ELSE agent

\* Mutant of CommandOf: a payload without a command key is a dispatch.
CommandOrDispatch(payload) == Get(payload.command, "dispatch")

\* `command = payload.get("command", "")`
CommandOf(payload) == Get(payload.command, "")

\* Whether _handle_command raises: json.loads gave a value without .get
\* (AttributeError); JSONDecodeError is caught inside.
CommandRaises(payload) == payload.json = "value"

\* The agent after _handle_command(raw_data).  An exception that leaves it
\* is caught by _listen_for_commands, which logs it and ends.
Handled(agent, vehicle_id, payload) ==
    LET seen == [agent EXCEPT !.handled = Some(payload)]
    IN IF payload.json = "invalid" THEN seen
       ELSE IF CommandRaises(payload) THEN [seen EXCEPT !.listening = FALSE]
       ELSE IF CommandOf(payload) = "dispatch" THEN DispatchCommand(seen, payload)
       ELSE IF CommandOf(payload) = "resolve"
            THEN ResolveCommand(seen, vehicle_id, payload)
       ELSE seen

\* One iteration of the loop of _listen_for_commands on data from any
\* publisher: _handle_command(data).
HandleCommand(vehicle_id, payload) ==
    /\ agents[vehicle_id].listening
    /\ agents' = [agents EXCEPT ![vehicle_id] = Handled(@, vehicle_id, payload)]
    /\ lastCall' = None
    /\ rejected' = None
    /\ UNCHANGED <<fleet, fleetOrder, emergencies, dispatches, redis, procCalls,
                   resCalls, published, listener, attempts, delivered,
                   heartbeat_counter, sequence_number, ticks, lastTick,
                   runVars>>

\* Agents configured with any initial_status (the third vehicle idle).
InitConfigured ==
    /\ InitComponents
    /\ agents \in [VehicleIds -> {NewAgent(status) : status \in OperationalStatuses}]
    /\ agents[<<"AMB", 2>>] = NewAgent("idle")
    /\ delivered = {}
    /\ heartbeat_counter = 0
    /\ sequence_number = 0
    /\ ticks = 0
    /\ lastTick = None

\* The command listeners of two agents, fed any payload.
NextAgent ==
    \E v \in TelemetrySources, payload \in CommandPayloads : HandleCommand(v, payload)

InitAgent == InitOrchestrator /\ InitConfigured

SpecAgent == InitAgent /\ [][NextAgent]_vars

----------------------------------------------------------------------------
(* Orchestrator and agents over Redis pub/sub *)

\* The JSON object the orchestrator publishes, as a command listener parses
\* it: the dispatch command carries "command": "dispatch"; the resolution
\* broadcast carries emergency_id and released_vehicles and no command key;
\* the assigned broadcast carries emergency_id and assigned_vehicles.
PayloadOf(message) ==
    [json |-> "object",
     command |-> IF message.kind = "command" THEN Some("dispatch") ELSE None,
     emergency_id |-> Some(message.emergency_id),
     released_vehicles |-> IF message.kind = "resolved" THEN Some(message.vehicles)
                           ELSE None]

\* The channels _listen_for_commands subscribes to: the vehicle's own
\* commands channel and the pattern aegis:dispatch:*:resolved.
Subscribed(vehicle_id, message) ==
    \/ message.kind = "command" /\ message.vehicles = <<vehicle_id>>
    \/ message.kind = "resolved"

\* Redis hands a published message to the command listener of a vehicle; at
\* most once, in any order across channels.
Deliver(vehicle_id, message) ==
    /\ message \in published
    /\ Subscribed(vehicle_id, message)
    /\ <<vehicle_id, message>> \notin delivered
    /\ agents[vehicle_id].listening
    /\ agents' = [agents EXCEPT
                     ![vehicle_id] = Handled(@, vehicle_id, PayloadOf(message))]
    /\ delivered' = delivered \cup {<<vehicle_id, message>>}
    /\ lastCall' = None
    /\ rejected' = None
    /\ UNCHANGED <<fleet, fleetOrder, emergencies, dispatches, redis, procCalls,
                   resCalls, published, listener, attempts, heartbeat_counter,
                   sequence_number, ticks, lastTick,
                   runVars>>

\* The orchestrator with its Redis connection and the agents of the
\* vehicles that send telemetry, listening for what it publishes.
NextFleet ==
    \/ Start
    \/ \E v \in TelemetrySources : HandleTelemetry(v, <<"valid", 0>>)
    \/ \E e \in EmergencyIds, req \in SingleUnitChoices : ProcessEmergency(e, 0, req)
    \/ \E e \in EmergencyIds : PublishCommand(e)
    \/ \E e \in EmergencyIds : PublishBroadcast(e)
    \/ \E e \in EmergencyIds : ApiResolveEmergency(e)
    \/ \E e \in EmergencyIds : PublishResolved(e)
    \/ \E v \in TelemetrySources : \E message \in published : Deliver(v, message)

SpecFleet == Init /\ [][NextFleet]_vars

----------------------------------------------------------------------------
(* process_emergency with publishes that may fail *)

\* Mutant of CommandMessage: every command goes to the first unit's topic.
CommandToFirstUnit(emergency_id, i) ==
    Message("command", emergency_id, <<dispatches[emergency_id].units[1].vehicle_id>>)

\* The command of the i-th unit: its channel is that vehicle's command topic.
CommandMessage(emergency_id, i) ==
    Message("command", emergency_id, <<dispatches[emergency_id].units[i].vehicle_id>>)

\* Mutant of AfterAttempt: a failed publish ends the call with the error.
AbortOnFailure(call, units, ok) ==
    IF ~ok THEN [pc |-> "raised", i |-> 0]
    ELSE IF call.pc = "command" /\ call.i < Len(units)
    THEN [pc |-> "command", i |-> call.i + 1]
    ELSE IF call.pc = "command" THEN [pc |-> "broadcast", i |-> 0]
    ELSE [pc |-> "returned", i |-> 0]

\* Where the call stands after a publish: `except Exception` logs a failure
\* and the code goes on as after a success, to the next unit, then to the
\* broadcast, then to the return.
AfterAttempt(call, units, ok) ==
    IF call.pc = "command" /\ call.i < Len(units)
    THEN [pc |-> "command", i |-> call.i + 1]
    ELSE IF call.pc = "command" THEN [pc |-> "broadcast", i |-> 0]
    ELSE [pc |-> "returned", i |-> 0]

\* One publish of process_emergency completes (ok) or raises.
Attempt(emergency_id, message, ok) ==
    /\ attempts' = Append(attempts, [message |-> message, ok |-> ok])
    /\ published' = IF ok THEN published \cup {message} ELSE published
    /\ procCalls' = [procCalls EXCEPT ![emergency_id] =
                        AfterAttempt(@, dispatches[emergency_id].units, ok)]
    /\ lastCall' = None
    /\ rejected' = None
    /\ UNCHANGED <<fleet, fleetOrder, emergencies, dispatches, redis, resCalls,
                   listener, agentVars,
                   runVars>>

\* `await self._redis.publish(channel, ...)` of the command loop
AttemptCommand(emergency_id, ok) ==
    /\ procCalls[emergency_id].pc = "command"
    /\ Attempt(emergency_id, CommandMessage(emergency_id, procCalls[emergency_id].i), ok)

\* `await self._redis.publish(broadcast_channel, ...)`
AttemptBroadcast(emergency_id, ok) ==
    /\ procCalls[emergency_id].pc = "broadcast"
    /\ Attempt(emergency_id,
               Message("assigned", emergency_id, VehicleIdsOf(dispatches[emergency_id])),
               ok)

\* process_emergency calls on a started orchestrator whose publishes succeed
\* or fail one by one.
NextPublish ==
    \/ Start
    \/ \E v \in TelemetrySources : HandleTelemetry(v, <<"valid", 0>>)
    \/ \E e \in EmergencyIds, req \in SingleUnitChoices :
           redis /\ ProcessEmergency(e, 0, req)
    \/ \E e \in EmergencyIds, ok \in BOOLEAN : AttemptCommand(e, ok)
    \/ \E e \in EmergencyIds, ok \in BOOLEAN : AttemptBroadcast(e, ok)

SpecPublish == Init /\ [][NextPublish]_vars

----------------------------------------------------------------------------
(* VehicleAgent._tick *)

HeartbeatEvery == 10   \* `if self.heartbeat_counter >= 10`
MaxTicks == 21         \* ticks of one run
MaxAlerts == 2         \* alerts the anomaly detector returns for one record

\* Mutant of NextSequence: the number is not advanced.
SameSequence(n) == n

\* `self.sequence_number += 1`, the first statement of generate()
NextSequence(n) == n + 1

\* Mutant of PublishRaises: a failed redis.publish leaves the publish method.
PublishPropagates(ok) == ~ok

\* Whether publish_telemetry / publish_alert / publish_heartbeat raise on a
\* connected client: the exception of redis.publish is logged and swallowed.
PublishRaises(ok) == FALSE

\* What one tick meets: the step among generate, apply_failures and analyze
\* that raises (or "none"), the number of alerts analyze returns, and the
\* publish calls of the tick (by position) on which redis.publish fails.
TickInputs ==
    [raises : {"generate", "apply_failures", "analyze"}, alerts : {0}, lost : {{}}]
    \cup [raises : {"none"}, alerts : 0..MaxAlerts, lost : SUBSET (1..(MaxAlerts + 2))]

\* The position of the first publish call of `calls` that raises, else 0.
FirstRaising(calls, lost) ==
    LET raising == {i \in 1..Len(calls) : PublishRaises(i \notin lost)}
    IN IF raising = {} THEN 0 ELSE CHOOSE i \in raising : \A j \in raising : i <= j

\* _tick(): the counters after the tick and what the tick did.  An
\* exception of any step ends the try block; the except clause logs it.
RunTick(counter, sequence, input) ==
    LET number == NextSequence(sequence)
        calls == <<"telemetry">> \o [k \in 1..input.alerts |-> "alert"]
        stop == FirstRaising(calls, input.lost)
        made == [i \in 1..(IF stop = 0 THEN Len(calls) ELSE stop) |->
                    [kind |-> calls[i], ok |-> i \notin input.lost]]
        counted == counter + 1
        beat == counted >= HeartbeatEvery
        beatOk == (Len(calls) + 1) \notin input.lost
        did == [raises |-> input.raises, alerts |-> input.alerts,
                telemetry |-> Some(number), sent |-> made, error |-> FALSE]
    IN IF input.raises # "none"
       THEN [heartbeat_counter |-> counter, sequence_number |-> number,
             tick |-> [did EXCEPT !.error = TRUE, !.sent = <<>>,
                                  !.telemetry = IF input.raises = "generate"
                                                THEN None ELSE Some(number)]]
       ELSE IF stop # 0
       THEN [heartbeat_counter |-> counter, sequence_number |-> number,
             tick |-> [did EXCEPT !.error = TRUE]]
       ELSE IF ~beat
       THEN [heartbeat_counter |-> counted, sequence_number |-> number, tick |-> did]
       ELSE [heartbeat_counter |-> IF PublishRaises(beatOk) THEN counted ELSE 0,
             sequence_number |-> number,
             tick |-> [did EXCEPT !.sent = Append(made, [kind |-> "heartbeat",
                                                         ok |-> beatOk]),
                                  !.error = PublishRaises(beatOk)]]

\* One iteration of the loop of run(): _tick() returns, with or without
\* having logged an error, and the loop goes on.
Tick(input) ==
    /\ ticks < MaxTicks
    /\ LET after == RunTick(heartbeat_counter, sequence_number, input)
       IN /\ heartbeat_counter' = after.heartbeat_counter
          /\ sequence_number' = after.sequence_number
          /\ lastTick' = Some(after.tick)
    /\ ticks' = ticks + 1
    /\ lastCall' = None
    /\ rejected' = None
    /\ UNCHANGED <<fleet, fleetOrder, emergencies, dispatches, redis, procCalls,
                   resCalls, published, listener, attempts, agents, delivered,
                   runVars>>

\* The tick loop of one started agent.
NextTick == \E input \in TickInputs : Tick(input)

SpecTick == Init /\ [][NextTick]_vars

----------------------------------------------------------------------------
(* Alert and telemetry messages of one vehicle in either order *)

\* _handle_alert as above, with the handled message logged: its source and
\* whether that source was in the fleet when the handler ran.
HandleAlertMessage(vehicle_id) ==
    /\ fleet' = Alert(fleet, vehicle_id)
    /\ alerted' = alerted \cup {<<vehicle_id, vehicle_id \in DOMAIN fleet>>}
    /\ lastCall' = None
    /\ rejected' = None
    /\ UNCHANGED <<fleetOrder, emergencies, dispatches, redis, procCalls, resCalls,
                   published, listener, attempts, agentVars, orchRun, agentRun,
                   active_scenarios, telemetry, alerts>>

\* Telemetry and alerts arrive on different channels, so the first alert of
\* a vehicle may be handled before or after its first telemetry record;
\* emergencies are processed and resolved in between.
NextAlert ==
    \/ \E v \in TelemetrySources : HandleTelemetry(v, <<"valid", 0>>)
    \/ \E v \in TelemetrySources : HandleAlertMessage(v)
    \/ \E e \in EmergencyIds, req \in SingleUnitChoices : ProcessEmergency(e, 0, req)
    \/ \E e \in EmergencyIds : ApiResolveEmergency(e)

SpecAlert == Init /\ [][NextAlert]_vars

----------------------------------------------------------------------------
(* VehicleAgent._tick: generate, apply_failures, analyze *)

\* Every float of a telemetry record is kept in thousandths of its unit
\* (121.0 degrees is 121000, 11.4 V is 11400), elapsed time in whole minutes.

Max(a, b) == IF a > b THEN a ELSE b

\* The wheels of brake_pad_thickness_mm and tire_pressure_psi, in the order
\* the generator inserts them, which is the order .items() yields.
WheelOrder == <<"front_left", "front_right", "rear_left", "rear_right">>
Wheels == Range(WheelOrder)

\* FailureScenario
FailureScenarios ==
    {"engine_overheat", "oil_pressure_drop", "coolant_leak",
     "alternator_failure", "battery_degradation", "voltage_spike",
     "brake_pad_wear_critical", "brake_fluid_leak", "abs_malfunction",
     "tire_pressure_low", "tire_blowout", "uneven_tire_wear",
     "fuel_pump_failure", "fuel_leak", "injector_clog"}

\* The scenarios activated in the runs below.
ScenarioChoices ==
    {"engine_overheat", "alternator_failure", "brake_pad_wear_critical",
     "tire_pressure_low", "fuel_leak"}

StepMinutes == 10      \* minutes between two looks at the clock
MaxMinutes == 20       \* a scenario is followed for this many minutes

\* The record generate() returns at its baselines: the fields the failure
\* injector writes or the anomaly detector reads.
Baseline ==
    [engine_temp_celsius |-> 90000,
     coolant_temp_celsius |-> 85000,
     battery_voltage |-> 13800,
     alternator_voltage |-> 14200,
     battery_state_of_charge_percent |-> 95000,
     fuel_level_percent |-> 75000,
     brake_pad_thickness_mm |->
         [w \in Wheels |-> IF w \in {"front_left", "front_right"} THEN 8000 ELSE 9000],
     tire_pressure_psi |-> [w \in Wheels |-> 80000]]

\* Records generate() returns: Gaussian noise around the baselines, taken
\* at the baseline and at the ends of the band the noise level names
\* (2 percent of 90 degrees, 2 percent of 13.8 V, 1 percent of 75 percent).
Generated ==
    {[Baseline EXCEPT !.engine_temp_celsius = engine,
                      !.battery_voltage = voltage,
                      !.fuel_level_percent = fuel] :
        engine \in {88200, 90000, 91800},
        voltage \in {13524, 13800, 14076},
        fuel \in {74250, 75000, 75750}}

\* Records handed to analyze by any caller: the baseline, and records whose
\* metrics sit in the warning or critical band, each inside the range
\* VehicleTelemetry declares for its field.
Electrical ==
    {<<14200, 95000>>, <<13200, 30000>>, <<12900, 15000>>}
WheelReadings ==
    {<<Baseline.brake_pad_thickness_mm, Baseline.tire_pressure_psi>>,
     <<[Baseline.brake_pad_thickness_mm EXCEPT !["front_left"] = 1000,
                                               !["rear_left"] = 2000],
       [Baseline.tire_pressure_psi EXCEPT !["front_left"] = 35000,
                                          !["rear_right"] = 50000]>>}
Records ==
    {[Baseline EXCEPT !.engine_temp_celsius = engine,
                      !.battery_voltage = voltage,
                      !.fuel_level_percent = fuel,
                      !.alternator_voltage = rest[1][1],
                      !.battery_state_of_charge_percent = rest[1][2],
                      !.brake_pad_thickness_mm = rest[2][1],
                      !.tire_pressure_psi = rest[2][2]] :
        engine \in {90000, 110000, 121000},
        voltage \in {13800, 11400},
        fuel \in {75000, 10000, 4000},
        rest \in (Electrical \X {CHOOSE w \in WheelReadings : w[1] = Baseline.brake_pad_thickness_mm})
                 \cup ({<<14200, 95000>>} \X WheelReadings)}

\* _apply_engine_overheat after m minutes
ApplyEngineOverheat(t, m) ==
    [t EXCEPT !.engine_temp_celsius = Min(90000 + 2000 * m, 150000),
              !.coolant_temp_celsius = Min(85000 + 2500 * m, 150000)]

\* _apply_alternator_failure: 0.1 V per 5 minutes, 3 percent per minute, and
\* battery_voltage = 11.5 + soc / 100 * 2.5
ApplyAlternatorFailure(t, m) ==
    LET soc == Max(0, 100000 - 3000 * m)
    IN [t EXCEPT !.alternator_voltage = Max(11500, 14200 - 20 * m),
                 !.battery_state_of_charge_percent = soc,
                 !.battery_voltage = 11500 + soc \div 40]

\* _apply_brake_pad_wear: 0.05 mm per minute, the front pads 1.3 times that
ApplyBrakePadWear(t, m) ==
    [t EXCEPT !.brake_pad_thickness_mm =
        [w \in Wheels |-> IF w \in {"front_left", "front_right"}
                          THEN Max(0, 8000 - 65 * m)
                          ELSE Max(0, 9000 - 50 * m)]]

\* _apply_tire_leak: 2 psi per minute on front_left
ApplyTireLeak(t, m) ==
    [t EXCEPT !.tire_pressure_psi["front_left"] = Max(0, 80000 - 2000 * m)]

\* One pass of the loop of apply_failures: the branch of one scenario. A
\* scenario without a branch leaves the record as it is.
ApplyScenario(t, scenario, m) ==
    CASE scenario = "engine_overheat" -> ApplyEngineOverheat(t, m)
      [] scenario = "alternator_failure" -> ApplyAlternatorFailure(t, m)
      [] scenario = "brake_pad_wear_critical" -> ApplyBrakePadWear(t, m)
      [] scenario = "tire_pressure_low" -> ApplyTireLeak(t, m)
      [] OTHER -> t

\* apply_failures: the branches write disjoint fields, so the order in which
\* the dict yields the scenarios does not show in the result.
RECURSIVE ApplyAll(_, _, _)
ApplyAll(t, active, todo) ==
    IF todo = {} THEN t
    ELSE LET scenario == CHOOSE x \in todo : TRUE
         IN ApplyAll(ApplyScenario(t, scenario, active[scenario]), active,
                     todo \ {scenario})

ApplyFailures(t, active) == ApplyAll(t, active, DOMAIN active)

\* PredictiveAlert: the fields the checks set differently.
PredictiveAlert(severity, category, component, can_complete, safe) ==
    [severity |-> severity, category |-> category, component |-> component,
     can_complete_current_mission |-> can_complete, safe_to_operate |-> safe]

\* _check_engine_temp
CheckEngineTemp(t) ==
    IF t.engine_temp_celsius > 120000
    THEN <<PredictiveAlert("critical", "engine", "engine", FALSE, FALSE)>>
    ELSE IF t.engine_temp_celsius > 105000
    THEN <<PredictiveAlert("warning", "engine", "engine", TRUE, TRUE)>>
    ELSE <<>>

\* _check_alternator
CheckAlternator(t) ==
    IF t.alternator_voltage < 13000
    THEN <<PredictiveAlert("critical", "electrical", "alternator", TRUE, TRUE)>>
    ELSE IF t.alternator_voltage < 13500
    THEN <<PredictiveAlert("warning", "electrical", "alternator", TRUE, TRUE)>>
    ELSE <<>>

\* _check_battery: the state of charge, not the voltage
CheckBattery(t) ==
    IF t.battery_state_of_charge_percent < 20000
    THEN <<PredictiveAlert("critical", "electrical", "battery", FALSE, FALSE)>>
    ELSE IF t.battery_state_of_charge_percent < 40000
    THEN <<PredictiveAlert("warning", "electrical", "battery", TRUE, TRUE)>>
    ELSE <<>>

\* The alerts of the wheels from position i on, in the order of the dict.
RECURSIVE PerWheel(_, _, _, _, _, _)
PerWheel(values, i, critical, warning, category, prefix) ==
    IF i > Len(WheelOrder) THEN <<>>
    ELSE LET value == values[WheelOrder[i]]
             component == prefix \o WheelOrder[i]
             here == IF value < critical
                     THEN <<PredictiveAlert("critical", category, component, FALSE, FALSE)>>
                     ELSE IF value < warning
                     THEN <<PredictiveAlert("warning", category, component, TRUE, TRUE)>>
                     ELSE <<>>
         IN here \o PerWheel(values, i + 1, critical, warning, category, prefix)

\* _check_brake_pads
CheckBrakePads(t) ==
    PerWheel(t.brake_pad_thickness_mm, 1, 1500, 3000, "brakes", "brake_pad_")

\* _check_tire_pressure
CheckTirePressure(t) ==
    PerWheel(t.tire_pressure_psi, 1, 40000, 60000, "tires", "tire_")

\* analyze
Analyze(t) ==
    CheckEngineTemp(t) \o CheckAlternator(t) \o CheckBattery(t)
        \o CheckBrakePads(t) \o CheckTirePressure(t)

\* activate_scenario, called between two ticks: the activation time is now.
ActivateScenario(scenario) ==
    /\ telemetry = None
    /\ active_scenarios' = (scenario :> 0) @@ active_scenarios
    /\ lastCall' = None
    /\ rejected' = None
    /\ UNCHANGED <<fleet, fleetOrder, emergencies, dispatches, redis, procCalls,
                   resCalls, published, listener, attempts, agentVars, alerted,
                   orchRun, agentRun, telemetry, alerts>>

\* deactivate_scenario of an active scenario
DeactivateScenario(scenario) ==
    /\ telemetry = None
    /\ scenario \in DOMAIN active_scenarios
    /\ active_scenarios' =
           [x \in DOMAIN active_scenarios \ {scenario} |-> active_scenarios[x]]
    /\ lastCall' = None
    /\ rejected' = None
    /\ UNCHANGED <<fleet, fleetOrder, emergencies, dispatches, redis, procCalls,
                   resCalls, published, listener, attempts, agentVars, alerted,
                   orchRun, agentRun, telemetry, alerts>>

\* Time passes: what get_time_since_activation returns grows for every
\* active scenario.
Elapse ==
    /\ telemetry = None
    /\ active_scenarios # <<>>
    /\ \A x \in DOMAIN active_scenarios :
           active_scenarios[x] + StepMinutes <= MaxMinutes
    /\ active_scenarios' =
           [x \in DOMAIN active_scenarios |-> active_scenarios[x] + StepMinutes]
    /\ lastCall' = None
    /\ rejected' = None
    /\ UNCHANGED <<fleet, fleetOrder, emergencies, dispatches, redis, procCalls,
                   resCalls, published, listener, attempts, agentVars, alerted,
                   orchRun, agentRun, telemetry, alerts>>

\* Steps 1 to 3 of _tick on the record the generator produced; the three
\* calls are synchronous, so nothing runs between them.
Measure(generated) ==
    /\ telemetry = None
    /\ telemetry' = Some(ApplyFailures(generated, active_scenarios))
    /\ alerts' = Analyze(telemetry'[1])
    /\ lastCall' = None
    /\ rejected' = None
    /\ UNCHANGED <<fleet, fleetOrder, emergencies, dispatches, redis, procCalls,
                   resCalls, published, listener, attempts, agentVars, alerted,
                   orchRun, agentRun, active_scenarios>>

\* analyze on a record of the caller's, on an agent without an active
\* scenario: apply_failures returns a copy of what it is given.
AnalyzeRecord(record) ==
    /\ active_scenarios = <<>>
    /\ Measure(record)

\* Steps 4 to 6 of _tick: the record and its alerts are handed to the Redis
\* client and the tick returns; its locals are gone.
EndTick ==
    /\ telemetry # None
    /\ telemetry' = None
    /\ alerts' = <<>>
    /\ lastCall' = None
    /\ rejected' = None
    /\ UNCHANGED <<fleet, fleetOrder, emergencies, dispatches, redis, procCalls,
                   resCalls, published, listener, attempts, agentVars, alerted,
                   orchRun, agentRun, active_scenarios>>

\* One agent whose scenarios are switched on and off between its ticks.
NextMeasure ==
    \/ \E scenario \in ScenarioChoices : ActivateScenario(scenario)
    \/ \E scenario \in ScenarioChoices : DeactivateScenario(scenario)
    \/ Elapse
    \/ \E generated \in Generated : Measure(generated)
    \/ \E record \in Records : AnalyzeRecord(record)
    \/ EndTick

SpecMeasure == Init /\ [][NextMeasure]_vars

----------------------------------------------------------------------------
(* OrchestratorAgent.run from start() to its exit *)

\* run() is called: start() creates the Redis client and awaits ping().
RunOrchestrator ==
    /\ orchRun.pc = "idle"
    /\ orchRun' = [orchRun EXCEPT !.pc = "ping", !.redis_conn = "open"]
    /\ lastCall' = None
    /\ rejected' = None
    /\ UNCHANGED <<fleet, fleetOrder, emergencies, dispatches, redis, procCalls,
                   resCalls, published, listener, attempts, agentVars, alerted,
                   agentRun, active_scenarios, telemetry, alerts>>

\* ping() returns and start() creates the pub/sub object and awaits
\* psubscribe(), or ping() raises: start() is awaited before the try of
\* run(), so the exception leaves run() at once.
Ping(ok) ==
    /\ orchRun.pc = "ping"
    /\ orchRun' = IF ok THEN [orchRun EXCEPT !.pc = "psubscribe", !.pubsub = "open"]
                  ELSE [orchRun EXCEPT !.pc = "raised"]
    /\ lastCall' = None
    /\ rejected' = None
    /\ UNCHANGED <<fleet, fleetOrder, emergencies, dispatches, redis, procCalls,
                   resCalls, published, listener, attempts, agentVars, alerted,
                   agentRun, active_scenarios, telemetry, alerts>>

\* psubscribe() returns and start() sets running, or psubscribe() raises.
Psubscribe(ok) ==
    /\ orchRun.pc = "psubscribe"
    /\ orchRun' = IF ok THEN [orchRun EXCEPT !.pc = "listen", !.running = TRUE]
                  ELSE [orchRun EXCEPT !.pc = "raised"]
    /\ lastCall' = None
    /\ rejected' = None
    /\ UNCHANGED <<fleet, fleetOrder, emergencies, dispatches, redis, procCalls,
                   resCalls, published, listener, attempts, agentVars, alerted,
                   agentRun, active_scenarios, telemetry, alerts>>

\* The loop of run() takes a message while running.
Listen ==
    /\ orchRun.pc = "listen"
    /\ orchRun.running
    /\ \/ \E v \in TelemetrySources : HandleTelemetry(v, <<"valid", 0>>)
       \/ \E v \in VehicleIds : HandleHeartbeat(v)
       \/ \E v \in VehicleIds : HandleAlert(v)

\* Somebody asks the orchestrator to stop: running is set to False.
RequestStop ==
    /\ orchRun.pc = "listen"
    /\ orchRun.running
    /\ orchRun' = [orchRun EXCEPT !.running = FALSE]
    /\ lastCall' = None
    /\ rejected' = None
    /\ UNCHANGED <<fleet, fleetOrder, emergencies, dispatches, redis, procCalls,
                   resCalls, published, listener, attempts, agentVars, alerted,
                   agentRun, active_scenarios, telemetry, alerts>>

\* stop(): the subscription and the connection that exist are closed.
StopOrchestrator(run) ==
    [run EXCEPT !.running = FALSE,
                !.pubsub = IF @ = "none" THEN @ ELSE "closed",
                !.redis_conn = IF @ = "none" THEN @ ELSE "closed"]

\* The loop sees running False on the next message and breaks, or an
\* exception (an error, a cancellation) leaves the loop; in both cases the
\* finally clause awaits stop().
LeaveLoop(raised) ==
    /\ orchRun.pc = "listen"
    /\ raised \/ ~orchRun.running
    /\ orchRun' = [StopOrchestrator(orchRun) EXCEPT
                       !.pc = IF raised THEN "raised" ELSE "returned"]
    /\ lastCall' = None
    /\ rejected' = None
    /\ UNCHANGED <<fleet, fleetOrder, emergencies, dispatches, redis, procCalls,
                   resCalls, published, listener, attempts, agentVars, alerted,
                   agentRun, active_scenarios, telemetry, alerts>>

NextRun ==
    \/ RunOrchestrator
    \/ \E ok \in BOOLEAN : Ping(ok)
    \/ \E ok \in BOOLEAN : Psubscribe(ok)
    \/ Listen
    \/ RequestStop
    \/ \E raised \in BOOLEAN : LeaveLoop(raised)

SpecRun == Init /\ [][NextRun]_vars

----------------------------------------------------------------------------
(* VehicleAgent.run from start() to its exit *)

\* run() is called: the signal handlers are installed and start() awaits
\* redis_client.connect().
RunAgent ==
    /\ agentRun.pc = "idle"
    /\ agentRun' = [agentRun EXCEPT !.pc = "connect"]
    /\ lastCall' = None
    /\ rejected' = None
    /\ UNCHANGED <<fleet, fleetOrder, emergencies, dispatches, redis, procCalls,
                   resCalls, published, listener, attempts, agentVars, alerted,
                   orchRun, active_scenarios, telemetry, alerts>>

\* connect() returns and start() sets running and creates the command
\* listener task, or connect() raises and the exception leaves run().
Connect(ok) ==
    /\ agentRun.pc = "connect"
    /\ agentRun' = IF ok
                   THEN [pc |-> "loop", running |-> TRUE, task |-> "running",
                         client |-> "connected"]
                   ELSE [agentRun EXCEPT !.pc = "raised", !.client = "failed"]
    /\ lastCall' = None
    /\ rejected' = None
    /\ UNCHANGED <<fleet, fleetOrder, emergencies, dispatches, redis, procCalls,
                   resCalls, published, listener, attempts, agentVars, alerted,
                   orchRun, active_scenarios, telemetry, alerts>>

\* One pass of `while self.running`.
LoopTick ==
    /\ agentRun.pc = "loop"
    /\ agentRun.running
    /\ \E input \in TickInputs : Tick(input)

\* SIGINT or SIGTERM: the signal handler sets running to False.
Signal ==
    /\ agentRun.pc = "loop"
    /\ agentRun.running
    /\ agentRun' = [agentRun EXCEPT !.running = FALSE]
    /\ lastCall' = None
    /\ rejected' = None
    /\ UNCHANGED <<fleet, fleetOrder, emergencies, dispatches, redis, procCalls,
                   resCalls, published, listener, attempts, agentVars, alerted,
                   orchRun, active_scenarios, telemetry, alerts>>

\* stop(): nothing when running is False; else running is cleared, a
\* listener task that is not done is cancelled and the client disconnects.
StopAgent(run) ==
    IF ~run.running THEN run
    ELSE [run EXCEPT !.running = FALSE,
                     !.task = IF @ = "running" THEN "cancelled" ELSE @,
                     !.client = IF @ = "none" THEN @ ELSE "disconnected"]

\* stop() called from outside run() while the loop runs.
Stop ==
    /\ agentRun.pc = "loop"
    /\ agentRun.running
    /\ agentRun' = StopAgent(agentRun)
    /\ lastCall' = None
    /\ rejected' = None
    /\ UNCHANGED <<fleet, fleetOrder, emergencies, dispatches, redis, procCalls,
                   resCalls, published, listener, attempts, agentVars, alerted,
                   orchRun, active_scenarios, telemetry, alerts>>

\* The loop condition is False and the loop ends, or a cancellation is
\* raised at an await of the loop; the finally clause awaits stop().
LeaveAgentLoop(raised) ==
    /\ agentRun.pc = "loop"
    /\ raised \/ ~agentRun.running
    /\ agentRun' = [StopAgent(agentRun) EXCEPT
                        !.pc = IF raised THEN "raised" ELSE "returned"]
    /\ lastCall' = None
    /\ rejected' = None
    /\ UNCHANGED <<fleet, fleetOrder, emergencies, dispatches, redis, procCalls,
                   resCalls, published, listener, attempts, agentVars, alerted,
                   orchRun, active_scenarios, telemetry, alerts>>

\* The command listener gets a message after running became False and
\* leaves its loop by itself.
ListenerBreak ==
    /\ agentRun.task = "running"
    /\ ~agentRun.running
    /\ agentRun' = [agentRun EXCEPT !.task = "done"]
    /\ lastCall' = None
    /\ rejected' = None
    /\ UNCHANGED <<fleet, fleetOrder, emergencies, dispatches, redis, procCalls,
                   resCalls, published, listener, attempts, agentVars, alerted,
                   orchRun, active_scenarios, telemetry, alerts>>

NextAgentRun ==
    \/ RunAgent
    \/ \E ok \in BOOLEAN : Connect(ok)
    \/ LoopTick
    \/ Signal
    \/ Stop
    \/ \E raised \in BOOLEAN : LeaveAgentLoop(raised)
    \/ ListenerBreak

SpecAgentRun == Init /\ [][NextAgentRun]_vars

----------------------------------------------------------------------------
(* Claims *)

UnitIds(e) == Range(VehicleIdsOf(dispatches[e]))
InFlight(e) == procCalls[e].pc \in {"command", "broadcast"}

\* C1: two process_emergency calls on different emergencies, overlapping at
\* their publish awaits and with neither emergency resolved in between, never
\* put the same vehicle_id in both dispatches.
C1_ExclusiveReservation ==
    \A e1, e2 \in DOMAIN dispatches :
        (/\ e1 # e2
         /\ emergencies[e1].status # "resolved"
         /\ emergencies[e2].status # "resolved")
        => UnitIds(e1) \cap UnitIds(e2) = {}

\* Both calls are suspended at a publish, each with units assigned.
C1_Witness ==
    /\ InFlight(1) /\ InFlight(2)
    /\ dispatches[1].units # <<>> /\ dispatches[2].units # <<>>
    /\ emergencies[1].status # "resolved" /\ emergencies[2].status # "resolved"

\* C2: at the moment process_emergency(E) returns dispatch d, every vehicle
\* of d.units has a snapshot with current_emergency_id = E.
C2_ReturnedUnitsReserved ==
    [][\A e \in EmergencyIds :
          (procCalls[e].pc # "returned" /\ procCalls'[e].pc = "returned")
          => \A i \in 1..Len(dispatches'[e].units) :
                 fleet'[dispatches'[e].units[i].vehicle_id].current_emergency_id
                     = Some(e)]_vars

\* C3: at the moment resolve_emergency(E) returns, every vehicle of
\* dispatches[E].units is idle with no current_emergency_id.
C3_ResolvedUnitsIdle ==
    [][\A e \in EmergencyIds :
          (resCalls[e].pc # "returned" /\ resCalls'[e].pc = "returned")
          => \A i \in 1..Len(dispatches'[e].units) :
                 LET snap == fleet'[dispatches'[e].units[i].vehicle_id]
                 IN /\ snap.operational_status = "idle"
                    /\ snap.current_emergency_id = None]_vars

\* C4: for every snapshot s, s.is_available implies that s is idle, has no
\* active alert and has a location.
C4_AvailableImpliesLocated ==
    \A v \in DOMAIN fleet :
        IsAvailable(fleet[v])
        => /\ fleet[v].operational_status = "idle"
           /\ ~fleet[v].has_active_alert
           /\ fleet[v].location # None

StatusChanged(v) ==
    v \notin DOMAIN fleet
    \/ fleet[v].operational_status # fleet'[v].operational_status

\* C5: operational_status changes only by creation on the first telemetry of
\* an unknown vehicle (to idle), by the dispatcher's assignment (idle to
\* en_route) and by the dispatcher's release (to idle); telemetry of a known
\* vehicle, heartbeats and alerts never change it.
C5_StatusTransitions ==
    [][/\ \A v \in DOMAIN fleet' :
            StatusChanged(v) =>
               \/ /\ v \notin DOMAIN fleet
                  /\ fleet'[v].operational_status = "idle"
                  /\ \E data \in TelemetryPayloads : HandleTelemetryData(v, data)
               \/ /\ v \in DOMAIN fleet
                  /\ fleet[v].operational_status = "idle"
                  /\ fleet'[v].operational_status = "en_route"
                  /\ \E e \in EmergencyIds, loc \in Latitudes,
                        req \in UnitsRequiredChoices : ProcessEmergency(e, loc, req)
               \/ /\ v \in DOMAIN fleet
                  /\ fleet'[v].operational_status = "idle"
                  /\ \E e \in EmergencyIds : ApiResolveEmergency(e)
       /\ (\E v \in DOMAIN fleet :
               fleet'[v].operational_status # fleet[v].operational_status)
          => ~(\/ \E v \in DOMAIN fleet, data \in TelemetryPayloads :
                     HandleTelemetryData(v, data)
               \/ \E v \in VehicleIds : HandleHeartbeat(v)
               \/ \E v \in VehicleIds : HandleAlert(v))]_vars

\* An en_route vehicle with an active alert and a known location: telemetry,
\* a heartbeat and an alert have been handled, and the dispatcher has assigned.
C5_Witness ==
    \E v \in DOMAIN fleet :
        /\ fleet[v].operational_status = "en_route"
        /\ fleet[v].has_active_alert
        /\ fleet[v].location # None
        /\ fleet[v].last_seen_at = "heartbeat"
        /\ \E w \in DOMAIN fleet, e \in DOMAIN emergencies :
               /\ w # v
               /\ emergencies[e].status = "resolved"
               /\ w \in UnitIds(e)
               /\ fleet[w].operational_status = "idle"

\* What the claims call available for selection, stated on its own.
Selectable(snap) ==
    /\ snap.operational_status = "idle"
    /\ ~snap.has_active_alert
    /\ snap.location # None

Distance(snap, location) == HaversineKm(snap.location[1], location)

\* C6: the units process_emergency selects for a type are the nearest ones: no
\* available vehicle of that type left unselected is strictly closer to the
\* emergency than a selected vehicle of that type.
C6_NearestSelected ==
    [][lastCall' # None =>
         LET call == lastCall'[1]
             units == dispatches'[call.emergency_id].units
             chosen == {units[i].vehicle_id : i \in 1..Len(units)}
         IN \A v \in chosen, w \in DOMAIN fleet \ chosen :
                (fleet[w].vehicle_type = fleet[v].vehicle_type /\ Selectable(fleet[w]))
                => Distance(fleet[w], call.location) >= Distance(fleet[v], call.location)
      ]_vars

\* Right after a selection: one ambulance assigned, another one still
\* available and strictly farther from the emergency.
C6_Witness ==
    /\ lastCall # None
    /\ \E v, w \in DOMAIN fleet :
          /\ v # w
          /\ UnitIds(lastCall[1].emergency_id) = {v}
          /\ fleet[w].vehicle_type = fleet[v].vehicle_type
          /\ Selectable(fleet[w])
          /\ Distance(fleet[w], lastCall[1].location)
                 > Distance(fleet[v], lastCall[1].location)

\* vehicle_id order: "AMB-001" < "AMB-002" < "POL-001".
PrefixRank(prefix) == IF prefix = "AMB" THEN 1 ELSE IF prefix = "FIRE" THEN 2 ELSE 3
IdLess(a, b) ==
    PrefixRank(a[1]) < PrefixRank(b[1])
    \/ (a[1] = b[1] /\ a[2] < b[2])

\* C7: of two available vehicles of the required type at the same distance,
\* of which only one is selected, the one with the smaller vehicle_id is
\* selected, whatever the registration order.
C7_TieByVehicleId ==
    [][lastCall' # None =>
         LET call == lastCall'[1]
             units == dispatches'[call.emergency_id].units
             chosen == {units[i].vehicle_id : i \in 1..Len(units)}
         IN \A v \in chosen, w \in DOMAIN fleet \ chosen :
                (/\ fleet[w].vehicle_type = fleet[v].vehicle_type
                 /\ Selectable(fleet[w])
                 /\ Distance(fleet[w], call.location) = Distance(fleet[v], call.location))
                => IdLess(v, w)
      ]_vars

RequiredOf(required, vehicle_type) ==
    IF vehicle_type = "ambulance" THEN required.ambulances
    ELSE IF vehicle_type = "fire_truck" THEN required.fire_trucks
    ELSE required.police

\* C8: process_emergency never assigns a vehicle that at selection time is
\* not idle, has an active alert, has no known location, or is of a type
\* other than the one being filled.
C8_OnlySelectableAssigned ==
    [][lastCall' # None =>
         LET call == lastCall'[1]
             units == dispatches'[call.emergency_id].units
         IN \A i \in 1..Len(units) :
                LET before == fleet[units[i].vehicle_id]
                IN /\ before.operational_status = "idle"
                   /\ ~before.has_active_alert
                   /\ before.location # None
                   /\ before.vehicle_type = units[i].vehicle_type
                   /\ RequiredOf(call.units_required, before.vehicle_type) > 0
                   /\ Cardinality({j \in 1..Len(units) :
                          units[j].vehicle_type = before.vehicle_type})
                        <= RequiredOf(call.units_required, before.vehicle_type)
      ]_vars

\* Right after a selection that assigned a unit while the fleet also holds a
\* vehicle with an alert, one en_route and vehicles of two types.
C8_Witness ==
    /\ lastCall # None
    /\ dispatches[lastCall[1].emergency_id].units # <<>>
    /\ \E v, w \in DOMAIN fleet :
          /\ v # w
          /\ v \in UnitIds(lastCall[1].emergency_id)
          /\ w \notin UnitIds(lastCall[1].emergency_id)
          /\ RequiredOf(lastCall[1].units_required, fleet[w].vehicle_type) > 0
          /\ \/ fleet[w].has_active_alert
             \/ fleet[w].location = None
             \/ fleet[w].current_emergency_id \notin {None, Some(lastCall[1].emergency_id)}

VehicleTypes == {"ambulance", "fire_truck", "police"}

\* C9: for every type T with required count N_T the dispatch holds exactly
\* min(N_T, available vehicles of type T at selection time) units of type T;
\* a type with N_T = 0 contributes no unit and changes no snapshot.
C9_MinRequiredAvailable ==
    [][lastCall' # None =>
         LET call == lastCall'[1]
             units == dispatches'[call.emergency_id].units
         IN \A T \in VehicleTypes :
                LET n == RequiredOf(call.units_required, T)
                    available == {v \in DOMAIN fleet :
                                     fleet[v].vehicle_type = T /\ Selectable(fleet[v])}
                    got == {i \in 1..Len(units) : units[i].vehicle_type = T}
                IN /\ Cardinality(got) = Min(n, Cardinality(available))
                   /\ n = 0 => \A v \in DOMAIN fleet :
                                  fleet[v].vehicle_type = T => fleet'[v] = fleet[v]
      ]_vars

\* Right after a partial selection: two ambulances were required, one was
\* available and assigned; no police was required and a police car is idle.
C9_Witness ==
    /\ lastCall # None
    /\ lastCall[1].units_required.ambulances = 2
    /\ lastCall[1].units_required.police = 0
    /\ Len(dispatches[lastCall[1].emergency_id].units) = 1
    /\ \E v \in DOMAIN fleet : fleet[v].vehicle_type = "police" /\ Selectable(fleet[v])

\* C10: after process_emergency(E), E is dispatched with dispatched_at set if
\* and only if at least one unit was assigned (also fewer than required); with
\* zero units it is dispatching and dispatched_at is unset.
C10_StatusAfterProcess ==
    [][lastCall' # None =>
         LET e == lastCall'[1].emergency_id
             assigned == dispatches'[e].units # <<>>
         IN /\ emergencies'[e].status = (IF assigned THEN "dispatched" ELSE "dispatching")
            /\ emergencies'[e].dispatched_at = assigned
            /\ (emergencies'[e].status = "dispatched") = assigned
      ]_vars

\* Right after a partial dispatch (one unit for two required ambulances),
\* with an earlier emergency deferred in dispatching with no unit.
C10_Witness ==
    /\ lastCall # None
    /\ lastCall[1].units_required.ambulances = 2
    /\ Len(dispatches[lastCall[1].emergency_id].units) = 1
    /\ emergencies[lastCall[1].emergency_id].status = "dispatched"
    /\ \E e \in DOMAIN emergencies :
          /\ emergencies[e].status = "dispatching"
          /\ dispatches[e].units = <<>>
          /\ ~emergencies[e].dispatched_at

\* A step in which resolve_emergency(e) runs its release.
Resolves(e) ==
    /\ e \in DOMAIN emergencies
    /\ emergencies[e].status # "resolved"
    /\ emergencies'[e].status = "resolved"

\* C11: resolve_emergency(E) releases exactly the snapshots whose
\* current_emergency_id is E and returns exactly their vehicle_ids; directly
\* after process_emergency(E) these are the dispatch's vehicle_ids; the
\* released vehicles are idle with no emergency id, every other snapshot is
\* unchanged.
C11_ReleasesExactlyAssigned ==
    [][\A e \in EmergencyIds :
          Resolves(e) =>
             LET assigned == {v \in DOMAIN fleet :
                                 fleet[v].current_emergency_id = Some(e)}
                 released == resCalls'[e].released
             IN /\ Range(released) = assigned
                /\ Len(released) = Cardinality(assigned)
                /\ \A v \in assigned :
                       fleet'[v] = [fleet[v] EXCEPT !.operational_status = "idle",
                                                    !.current_emergency_id = None]
                /\ \A v \in DOMAIN fleet \ assigned : fleet'[v] = fleet[v]
                /\ DOMAIN fleet' = DOMAIN fleet
                /\ (lastCall # None /\ lastCall[1].emergency_id = e)
                   => Range(released) = UnitIds(e)
      ]_vars

\* resolve_emergency(e) has returned the vehicles of e's dispatch, which are
\* idle again, while another vehicle is still en_route to another emergency.
C11_Witness ==
    \E e \in DOMAIN emergencies :
        /\ resCalls[e].pc = "returned"
        /\ resCalls[e].released # <<>>
        /\ Range(resCalls[e].released) = UnitIds(e)
        /\ \A v \in UnitIds(e) : fleet[v].operational_status = "idle"
                                  /\ fleet[v].current_emergency_id = None
        /\ \E w \in DOMAIN fleet :
               /\ fleet[w].operational_status = "en_route"
               /\ fleet[w].current_emergency_id \notin {None, Some(e)}

KeyError(e) == Some([emergency_id |-> e, error |-> "KeyError"])
Conflict(e) == Some([emergency_id |-> e, error |-> "Conflict"])

\* C12: resolve_emergency with an emergency_id that is not in the emergencies
\* map fails with KeyError, leaves fleet, emergencies and dispatches unchanged
\* and publishes nothing, then or later.
C12_UnknownEmergencyKeyError ==
    [][\A e \in EmergencyIds \ DOMAIN emergencies :
          /\ ResolveEmergency(e) =>
                /\ rejected' = KeyError(e)
                /\ UNCHANGED <<fleet, fleetOrder, emergencies, dispatches, published>>
          /\ rejected' = KeyError(e) =>
                UNCHANGED <<fleet, fleetOrder, emergencies, dispatches, published>>
          /\ resCalls'[e] = resCalls[e]
      ]_vars

\* resolve_emergency has just raised KeyError for an unknown id, on a
\* connected orchestrator that holds a dispatched emergency and has published.
C12_Witness ==
    \E e \in EmergencyIds \ DOMAIN emergencies :
        /\ rejected = KeyError(e)
        /\ redis
        /\ published # {}
        /\ resCalls[e].pc = "none"
        /\ \E d \in DOMAIN emergencies : emergencies[d].status = "dispatched"

\* C13: a request to resolve an emergency that is already resolved is rejected
\* with Conflict and changes nothing (emergency, fleet, published messages),
\* also while an earlier resolve of the same emergency is still in flight: no
\* second resolve_emergency runs for it.
C13_ResolvedConflict ==
    [][\A e \in DOMAIN emergencies :
          emergencies[e].status = "resolved" =>
             /\ emergencies'[e] = emergencies[e]
             /\ resCalls'[e].released = resCalls[e].released
             /\ \/ resCalls'[e].pc = resCalls[e].pc
                \/ resCalls[e].pc = "publish" /\ resCalls'[e].pc = "returned"
             /\ ApiResolveRejected(e) => rejected' = Conflict(e)
             /\ rejected' = Conflict(e) =>
                    UNCHANGED <<fleet, fleetOrder, emergencies, dispatches, published,
                                procCalls, resCalls>>
      ]_vars

\* A second resolve request has just been answered with Conflict while the
\* first resolve_emergency is suspended at its publish and a vehicle it
\* released is already assigned to another emergency.
C13_Witness ==
    \E e \in DOMAIN emergencies :
        /\ rejected = Conflict(e)
        /\ resCalls[e].pc = "publish"
        /\ \E v \in UnitIds(e) :
               fleet[v].current_emergency_id \notin {None, Some(e)}

\* The status of the Emergency object with this id: the API builds it
\* (pending) and hands it to process_emergency, which stores it.
StatusOf(ems, e) == IF e \in DOMAIN ems THEN ems[e].status ELSE NewEmergency.status

LifecycleRank(status) ==
    IF status = "pending" THEN 0
    ELSE IF status = "dispatching" THEN 1
    ELSE IF status = "dispatched" THEN 2
    ELSE 3

\* C14, as stated: every status change follows pending, dispatching,
\* dispatched, resolved: never backwards, never from pending straight past
\* dispatching, never out of resolved.
C14_StatusLifecycle ==
    [][\A e \in EmergencyIds :
          LET old == StatusOf(emergencies, e)
              new == StatusOf(emergencies', e)
          IN /\ LifecycleRank(new) >= LifecycleRank(old)
             /\ old = "pending" => new \in {"pending", "dispatching"}
             /\ old = "resolved" => new = "resolved"
      ]_vars

\* C14, amended: the status never moves backwards and never leaves resolved;
\* from pending process_emergency moves it to dispatching (no unit) or straight
\* to dispatched (at least one unit), and only a resolve makes it resolved.
C14_StatusNeverBackwards ==
    [][\A e \in EmergencyIds :
          LET old == StatusOf(emergencies, e)
              new == StatusOf(emergencies', e)
          IN /\ LifecycleRank(new) >= LifecycleRank(old)
             /\ old = "pending" => new \in {"pending", "dispatching", "dispatched"}
             /\ (old = "pending" /\ new = "dispatched") => dispatches'[e].units # <<>>
             /\ (old = "pending" /\ new = "dispatching") => dispatches'[e].units = <<>>
             /\ old = "dispatching" => new \in {"dispatching", "resolved"}
             /\ old = "resolved" => new = "resolved"
      ]_vars

\* One emergency went pending -> dispatched -> resolved, the other
\* pending -> dispatching, and its process_emergency is still in flight.
C14_Witness ==
    /\ DOMAIN emergencies = {1, 2}
    /\ \E e, d \in DOMAIN emergencies :
           /\ emergencies[e].status = "resolved"
           /\ emergencies[e].dispatched_at
           /\ emergencies[d].status = "dispatching"
           /\ InFlight(d)

\* C15: an emergency to which process_emergency assigned no unit stays in
\* dispatching, with no unit, until it is resolved: no vehicle that registers
\* or is released later is assigned to it, and it never becomes dispatched.
C15_DeferredStaysDispatching ==
    [][\A e \in DOMAIN emergencies :
          emergencies[e].status = "dispatching" =>
             /\ dispatches[e].units = <<>>
             /\ emergencies'[e].status \in {"dispatching", "resolved"}
             /\ ~emergencies'[e].dispatched_at
             /\ dispatches'[e].units = <<>>
             /\ \A v \in DOMAIN fleet' : fleet'[v].current_emergency_id # Some(e)
      ]_vars

\* An emergency is still in dispatching with no unit while the vehicle that a
\* later emergency was given has been released and is available again.
C15_Witness ==
    \E e, d \in DOMAIN emergencies :
        /\ emergencies[e].status = "dispatching"
        /\ dispatches[e].units = <<>>
        /\ emergencies[d].status = "resolved"
        /\ dispatches[d].units # <<>>
        /\ \A v \in UnitIds(d) : Selectable(fleet[v])

\* The vehicle type that the id prefix stands for.
PrefixType(v) ==
    IF v[1] = "FIRE" THEN "fire_truck" ELSE IF v[1] = "POL" THEN "police" ELSE "ambulance"

\* The location a telemetry payload leaves on a fresh snapshot.
PayloadLocation(data) ==
    IF data.location[1] = "valid" THEN Some(data.location[2]) ELSE None

C17_FleetKeysStable ==
    [][\A v \in DOMAIN fleet :
          /\ fleet[v].vehicle_id = v
          /\ v \in DOMAIN fleet'
          /\ fleet'[v].vehicle_id = v
          /\ fleet'[v].vehicle_type = fleet[v].vehicle_type
      ]_vars

\* Two registered vehicles of different types, one released by a resolution,
\* the other en_route after a heartbeat and an alert.
C17_Witness ==
    /\ Len(fleetOrder) = 2
    /\ \E v, w \in DOMAIN fleet, e \in DOMAIN emergencies :
           /\ fleet[v].vehicle_type # fleet[w].vehicle_type
           /\ emergencies[e].status = "resolved"
           /\ v \in UnitIds(e)
           /\ fleet[v].operational_status = "idle"
           /\ fleet[v].battery_voltage # None
           /\ fleet[w].operational_status = "en_route"
           /\ fleet[w].has_active_alert
           /\ fleet[w].last_seen_at = "heartbeat"

\* C18: a heartbeat from a vehicle in the fleet map changes only that
\* snapshot's last_seen_at; its other fields, every other snapshot and the
\* emergencies and dispatches are unchanged.
C18_HeartbeatOnlyLastSeen ==
    [][\A v \in DOMAIN fleet :
          HandleHeartbeat(v) =>
             /\ DOMAIN fleet' = DOMAIN fleet
             /\ fleet'[v] = [fleet[v] EXCEPT !.last_seen_at = "heartbeat"]
             /\ \A w \in DOMAIN fleet \ {v} : fleet'[w] = fleet[w]
             /\ UNCHANGED <<fleetOrder, emergencies, dispatches>>
      ]_vars

\* A vehicle whose last message was a heartbeat, en_route with an active
\* alert, a location, a battery voltage and a fuel level.
C18_Witness ==
    \E v \in DOMAIN fleet :
        /\ fleet[v].last_seen_at = "heartbeat"
        /\ fleet[v].operational_status = "en_route"
        /\ fleet[v].current_emergency_id # None
        /\ fleet[v].has_active_alert
        /\ fleet[v].location # None
        /\ fleet[v].battery_voltage # None
        /\ fleet[v].fuel_level_percent # None

\* C19: a heartbeat or an alert whose source is not in the fleet map is
\* ignored: no snapshot is created; fleet, emergencies and dispatches are
\* unchanged.
C19_UnknownSourceIgnored ==
    [][\A v \in VehicleIds \ DOMAIN fleet :
          (HandleHeartbeat(v) \/ HandleAlert(v)) =>
             UNCHANGED <<fleet, fleetOrder, emergencies, dispatches>>
      ]_vars

\* The state is one that heartbeats and alerts of the unknown AMB-002 leave
\* as it is: AMB-002 has no snapshot while the fleet has a vehicle on a
\* mission and an emergency is dispatched.
C19_Witness ==
    /\ <<"AMB", 2>> \notin DOMAIN fleet
    /\ rejected = None /\ lastCall = None
    /\ \E v \in DOMAIN fleet, e \in DOMAIN emergencies :
           /\ fleet[v].current_emergency_id = Some(e)
           /\ emergencies[e].status = "dispatched"

\* C20: has_active_alert is sticky: once true on a snapshot it is true in
\* every later state, whatever telemetry, heartbeats, dispatches or
\* resolutions follow.
C20_AlertSticky ==
    [][\A v \in DOMAIN fleet :
          fleet[v].has_active_alert =>
             v \in DOMAIN fleet' /\ fleet'[v].has_active_alert
      ]_vars

\* A vehicle with an active alert that was on a mission and has been
\* released, and whose last message was a telemetry record.
C20_Witness ==
    \E v \in DOMAIN fleet, e \in DOMAIN emergencies :
        /\ fleet[v].has_active_alert
        /\ fleet[v].operational_status = "idle"
        /\ v \in UnitIds(e)
        /\ emergencies[e].status = "resolved"
        /\ fleet[v].last_seen_at = "telemetry"
        /\ fleet[v].fuel_level_percent # None

\* C21: no message stops the listener: whatever data a message carries, no
\* exception leaves _handle_raw_message and the loop of run() goes on.
C21_BadMessageDropped == listener # "failed"

\* The agent's state that commands drive.
Assignment(agent) == <<agent.operational_status, agent.current_emergency_id>>

\* The step is the listener of v handling a payload: nothing else writes
\* the agent, and `handled` names the payload.
Handles(v) == agents'[v] # agents[v]

\* C23: every dispatch command an agent handles sets operational_status to
\* en_route and current_emergency_id to the command's emergency_id, whatever
\* the status before; a later dispatch replaces the recorded id.
C23_DispatchSetsEnRoute ==
    [][\A v \in TelemetrySources :
          Handles(v) =>
              LET payload == agents'[v].handled[1]
              IN payload.command = Some("dispatch")
                 => Assignment(agents'[v]) = <<"en_route", payload.emergency_id>>]_vars

\* An agent configured in maintenance, or one already on emergency 1, has
\* handled a dispatch command for emergency 2.
C23_Witness ==
    \E v \in TelemetrySources :
        /\ agents[v].handled # None
        /\ agents[v].handled[1].command = Some("dispatch")
        /\ agents[v].handled[1].emergency_id = Some(2)
        /\ Assignment(agents[v]) = <<"en_route", Some(2)>>

\* The released_vehicles list of a resolve payload, empty when the key is
\* missing.
ReleasedOf(payload) ==
    IF payload.released_vehicles = None THEN {} ELSE Range(payload.released_vehicles[1])

NotACommand(payload) ==
    \/ payload.json = "invalid"
    \/ payload.json = "object" /\ payload.command \notin {Some("dispatch"), Some("resolve")}

C22_ResolutionReturnsAgent ==
    [][delivered' # delivered =>
          \A d \in delivered' \ delivered :
              (d[2].kind = "resolved" /\ d[1] \in Range(d[2].vehicles))
              => Assignment(agents'[d[1]]) = <<"idle", None>>]_vars

\* The attempts of the call for e, and those that publish a given message.
AttemptsOf(e) == {i \in 1..Len(attempts) : attempts[i].message.emergency_id = e}
Publishes(message) ==
    {i \in 1..Len(attempts) : attempts[i].message = message /\ attempts[i].ok}

\* C26: with a connected transport, a process_emergency call that has
\* returned has published exactly one dispatch command per unit of its
\* dispatch, on that vehicle's command topic, and exactly one assigned
\* broadcast that lists the dispatch's vehicle ids; nothing else.
C26_OneCommandPerUnit ==
    \A e \in DOMAIN emergencies :
        (procCalls[e].pc = "returned" /\ \A i \in AttemptsOf(e) : attempts[i].ok)
        => LET units == dispatches[e].units
           IN /\ \A k \in 1..Len(units) :
                     Cardinality(Publishes(Message("command", e, <<units[k].vehicle_id>>))) = 1
              /\ Cardinality(Publishes(Message("assigned", e, VehicleIdsOf(dispatches[e])))) = 1
              /\ Cardinality(AttemptsOf(e)) = Len(units) + 1

\* A call that dispatched two units has returned after three publishes.
C26_Witness ==
    \E e \in DOMAIN emergencies :
        /\ procCalls[e].pc = "returned"
        /\ Len(dispatches[e].units) = 2
        /\ \A i \in AttemptsOf(e) : attempts[i].ok
        /\ Cardinality(AttemptsOf(e)) = 3

\* C27: a failed publish of a dispatch command or of the assigned broadcast
\* undoes nothing (fleet, emergencies and dispatches are as they were, the
\* units en_route with current_emergency_id = E, the emergency dispatched);
\* the call goes on to the remaining commands and the broadcast, and a call
\* that has returned has attempted every one of them.
C27_FailedPublishKeepsReservation ==
    /\ [](\A e \in DOMAIN emergencies :
             procCalls[e].pc \in {"command", "broadcast", "returned"}
             /\ (procCalls[e].pc = "returned"
                 => LET units == dispatches[e].units
                    IN /\ \A k \in 1..Len(units) : \E i \in AttemptsOf(e) :
                              attempts[i].message =
                                  Message("command", e, <<units[k].vehicle_id>>)
                       /\ \E i \in AttemptsOf(e) : attempts[i].message.kind = "assigned"
                       /\ dispatches[e].units # <<>> =>
                              /\ emergencies[e].status = "dispatched"
                              /\ \A k \in 1..Len(units) :
                                     /\ fleet[units[k].vehicle_id].operational_status = "en_route"
                                     /\ fleet[units[k].vehicle_id].current_emergency_id = Some(e)))
    /\ [][(Len(attempts') > Len(attempts) /\ ~attempts'[Len(attempts')].ok)
          => UNCHANGED <<fleet, emergencies, dispatches>>]_vars

\* A call whose first command and whose broadcast failed has returned; its
\* two units are en_route for it.
C27_Witness ==
    \E e \in DOMAIN emergencies :
        /\ procCalls[e].pc = "returned"
        /\ Len(dispatches[e].units) = 2
        /\ emergencies[e].status = "dispatched"
        /\ \E i, j \in AttemptsOf(e) :
               /\ ~attempts[i].ok /\ attempts[i].message.kind = "command"
               /\ ~attempts[j].ok /\ attempts[j].message.kind = "assigned"
        /\ \A k \in 1..2 :
               fleet[dispatches[e].units[k].vehicle_id].current_emergency_id = Some(e)

\* Whether a tick called publish_heartbeat.
Beats(tick) == \E i \in 1..Len(tick.sent) : tick.sent[i].kind = "heartbeat"

\* C28: the agent publishes a heartbeat on every 10th tick it executes,
\* counted from the start, and on no other tick, also when ticks end in an
\* error.
C28_HeartbeatEveryTenthTick ==
    lastTick # None => (Beats(lastTick[1]) <=> ticks % HeartbeatEvery = 0)

\* The publish calls a tick makes when none of its first three steps raises.
ExpectedSends(tick, counter) ==
    <<"telemetry">> \o [k \in 1..tick.alerts |-> "alert"]
    \o (IF counter + 1 >= HeartbeatEvery THEN <<"heartbeat">> ELSE <<>>)

\* C29: a failed publish of the telemetry or of an alert does not abort the
\* tick: every alert of the tick and, on a heartbeat tick, the heartbeat are
\* still published and the tick ends without an error, so that run() goes
\* on to the next tick.
C29_PublishFailureKeepsTick ==
    [][ticks' # ticks =>
          LET tick == lastTick'[1]
              sends == ExpectedSends(tick, heartbeat_counter)
          IN tick.raises = "none"
             => /\ ~tick.error
                /\ Len(tick.sent) = Len(sends)
                /\ \A i \in 1..Len(sends) : tick.sent[i].kind = sends[i]]_vars

\* A heartbeat tick whose telemetry publish and first alert publish failed
\* went on to the second alert and the heartbeat.
C29_Witness ==
    /\ lastTick # None
    /\ lastTick[1].alerts = 2
    /\ Len(lastTick[1].sent) = 4
    /\ ~lastTick[1].sent[1].ok
    /\ ~lastTick[1].sent[2].ok
    /\ lastTick[1].sent[3].ok
    /\ lastTick[1].sent[4].kind = "heartbeat"
    /\ ~lastTick[1].error

\* C30: every telemetry record carries a sequence_number greater than that
\* of every record generated before it, whether the ticks in between
\* published or failed.
C30_SequenceIncreasing ==
    /\ [](lastTick # None /\ lastTick[1].telemetry # None
             => lastTick[1].telemetry[1] <= sequence_number)
    /\ [][sequence_number' >= sequence_number]_vars
    /\ [][(ticks' # ticks /\ lastTick'[1].telemetry # None)
             => lastTick'[1].telemetry[1] > sequence_number]_vars

\* The third tick has generated record 3 after a tick that failed in
\* generate and one that failed in analyze.
C30_Witness ==
    /\ ticks = 3
    /\ heartbeat_counter = 1
    /\ lastTick # None
    /\ lastTick[1].telemetry = Some(3)
    /\ ~lastTick[1].error

\* C36: a resolve command for emergency E changes an agent's status or
\* current_emergency_id only if the agent is assigned to E at that moment;
\* a resolve command of an earlier emergency that lists the vehicle and
\* arrives after the dispatch command of a newer one leaves the agent
\* en_route with the newer emergency id.
C36_ResolveOnlyOwnEmergency ==
    [][\A v \in TelemetrySources :
          Handles(v) =>
              LET payload == agents'[v].handled[1]
              IN (/\ payload.command = Some("resolve")
                  /\ agents[v].current_emergency_id # None
                  /\ agents[v].current_emergency_id # payload.emergency_id)
                 => Assignment(agents'[v]) = Assignment(agents[v])]_vars

\* The step of process_emergency(e) in which one command publish completes.
PublishesCommand(e) ==
    /\ procCalls[e].pc = "command"
    /\ procCalls'[e] # procCalls[e]

\* C37: whenever a dispatch command for vehicle v and emergency E is
\* published, the snapshot of v still has current_emergency_id = E; a
\* resolve_emergency(E) that ran while process_emergency(E) was suspended
\* at a publish is never followed by a dispatch command for E.
C37_CommandOnlyForReserved ==
    [][\A e \in EmergencyIds :
          PublishesCommand(e)
          => fleet[dispatches[e].units[procCalls[e].i].vehicle_id].current_emergency_id
                 = Some(e)]_vars

\* The snapshots that carry emergency e.
AssignedTo(e) == {v \in DOMAIN fleet : fleet[v].current_emergency_id = Some(e)}

\* C38: in every state in which the orchestrator is suspended or idle, for
\* every emergency E with status dispatched the snapshots whose
\* current_emergency_id is E are exactly the vehicles of dispatches[E].units.
C38_DispatchedUnitsMatchFleet ==
    \A e \in DOMAIN dispatches :
        emergencies[e].status = "dispatched" => AssignedTo(e) = UnitIds(e)

\* One emergency is dispatched with its call suspended at a publish, after
\* another emergency that had units was resolved.
C38_Witness ==
    \E e1, e2 \in DOMAIN dispatches :
        /\ e1 # e2
        /\ emergencies[e1].status = "dispatched"
        /\ InFlight(e1)
        /\ AssignedTo(e1) # {}
        /\ emergencies[e2].status = "resolved"
        /\ UnitIds(e2) # {}

\* C39: a fleet snapshot has a current_emergency_id if and only if its
\* operational_status is en_route.
C39_EmergencyIdIffEnRoute ==
    \A v \in DOMAIN fleet :
        (fleet[v].current_emergency_id # None)
            <=> (fleet[v].operational_status = "en_route")

\* One vehicle is en_route for a dispatched emergency while another one has
\* been released by a resolution and is idle again.
C39_Witness ==
    \E v, w \in DOMAIN fleet :
        \E e \in DOMAIN dispatches :
            /\ v # w
            /\ fleet[v].operational_status = "en_route"
            /\ fleet[v].current_emergency_id # None
            /\ emergencies[e].status = "resolved"
            /\ w \in UnitIds(e)
            /\ fleet[w].operational_status = "idle"
            /\ fleet[w].current_emergency_id = None

\* The vehicles the process_emergency call of this step assigned.
AssignedNow == Range(VehicleIdsOf(dispatches'[lastCall'[1].emergency_id]))

\* C40 as stated: once an alert message with source v has been handled, no
\* later process_emergency assigns v, whether v's first telemetry record was
\* handled before or after that alert.
C40_AlertedNeverAssigned ==
    [][lastCall' # None =>
          \A v \in AssignedNow : <<v, TRUE>> \notin alerted /\ <<v, FALSE>> \notin alerted
      ]_vars

\* C40, amended: once an alert message with source v has been handled while
\* v was in the fleet, no later process_emergency assigns v.
C40_AlertedKnownNeverAssigned ==
    [][lastCall' # None => \A v \in AssignedNow : <<v, TRUE>> \notin alerted]_vars

\* A process_emergency call that needed a vehicle of the type of an idle,
\* located vehicle whose alert was handled after its registration, and did
\* not assign it.
C40_Witness ==
    /\ lastCall # None
    /\ \E v \in DOMAIN fleet :
          /\ <<v, TRUE>> \in alerted
          /\ fleet[v].operational_status = "idle"
          /\ fleet[v].location # None
          /\ RequiredOf(lastCall[1].units_required, fleet[v].vehicle_type) > 0
          /\ v \notin UnitIds(lastCall[1].emergency_id)

\* The record of scenario S5: engine temperature 121, battery voltage 11.4,
\* fuel level 4 percent, every other metric normal.
ThresholdCrossings(t) ==
    /\ t.engine_temp_celsius = 121000
    /\ t.battery_voltage = 11400
    /\ t.fuel_level_percent = 4000
    /\ t.alternator_voltage >= 13500
    /\ t.battery_state_of_charge_percent >= 40000
    /\ \A w \in Wheels : /\ t.brake_pad_thickness_mm[w] >= 3000
                         /\ t.tire_pressure_psi[w] >= 60000

\* C33: for a record with engine temperature 121, battery voltage 11.4 and
\* fuel level 4 percent, all else normal, analyze returns exactly three
\* alerts, all critical: one for the engine, one for the battery voltage,
\* one for the fuel level.
C33_ThreeCriticalAlerts ==
    (telemetry # None /\ ThresholdCrossings(telemetry[1]))
    => /\ Len(alerts) = 3
       /\ \A i \in 1..Len(alerts) : alerts[i].severity = "critical"
       /\ \E i \in 1..Len(alerts) : alerts[i].component = "engine"
       /\ \E i \in 1..Len(alerts) : alerts[i].category = "electrical"
       /\ \E i \in 1..Len(alerts) : alerts[i].category = "fuel"

\* C34: every alert analyze returns with severity critical has
\* safe_to_operate false, whichever metric raised it.
C34_CriticalIsUnsafe ==
    \A i \in 1..Len(alerts) :
        alerts[i].severity = "critical" => ~alerts[i].safe_to_operate

\* C35: when fuel_leak has been active for m minutes, the record
\* apply_failures returns has fuel_level_percent = max(0, 75 - 5m),
\* whatever the generator produced.
C35_FuelLeakProgression ==
    (telemetry # None /\ "fuel_leak" \in DOMAIN active_scenarios)
    => telemetry[1].fuel_level_percent
           = Max(0, 75000 - 5000 * active_scenarios["fuel_leak"])

\* C31: whenever VehicleAgent.run() has exited, after a shutdown signal,
\* after an error or after a cancellation, the command listener task is not
\* left running and the Redis client is not left connected.
C31_AgentExitReleases ==
    agentRun.pc \in {"returned", "raised"}
    => /\ agentRun.task # "running"
       /\ agentRun.client # "connected"

\* C32: whenever OrchestratorAgent.run() has exited, by a stop request, by
\* an error in the listen loop or by a failed ping or subscribe inside
\* start(), the subscription and the Redis connection that were created
\* have been closed.
C32_OrchestratorExitReleases ==
    orchRun.pc \in {"returned", "raised"}
    => /\ orchRun.pubsub # "open"
       /\ orchRun.redis_conn # "open"

====
